---- MODULE Spec2Model ----
(***************************************************************************)
(* Model of the internal graphics viewer, src/frontend/mame/ui/viewgfx.cpp *)
(*                                                                         *)
(* The viewer is single threaded and frame synchronous: the host calls     *)
(* ui_gfx_ui_handler once per displayed frame and the call runs to         *)
(* completion.  Every function of the source is an operator from the       *)
(* viewer state (the record ui_gfx) to the viewer state; the host's call   *)
(* of the handler is the action Frame.                                     *)
(***************************************************************************)
EXTENDS Integers, Sequences, FiniteSets, TLC

VARIABLES
    host,      \* the machine: palette devices, gfx devices, tilemaps, ui target
    keyboard,  \* the keys the user may press in this behaviour
    ui_gfx,    \* static ui_gfx_state ui_gfx
    input,     \* the keys latched for this frame, uistate, and the frame phase
    paused,    \* machine.paused()
    last,      \* what the last call of ui_gfx_ui_handler did (observation only)
    probe      \* arguments and result of a function applied on its own

vars == <<host, keyboard, ui_gfx, paused, input, last, probe>>

----------------------------------------------------------------------------
(* Constants of the source *)

UI_GFX_PALETTE == 0
UI_GFX_GFXSET == 1
UI_GFX_TILEMAP == 2

MAX_GFX_DECODERS == 8

\* drawgfx.h, render.h, tilemap.h, ui.h (headers of the repository)
MAX_GFX_ELEMENTS == 32
ORIENTATION_FLIP_X == 1
ORIENTATION_FLIP_Y == 2
ORIENTATION_SWAP_XY == 4
ROT90 == 5
TILEMAP_DRAW_CATEGORY_MASK == 15
TILEMAP_DRAW_ALL_CATEGORIES == 512
\* ((uint32_t)~0), written as the 32-bit two's complement value
UI_HANDLER_CANCEL == -1

\* nullptr
NULL == -1
TRANSPARENT == -1

----------------------------------------------------------------------------
(* Bounds of the model *)

\* number of per-set slots of ui_gfx_info that the model keeps (the source
\* keeps MAX_GFX_ELEMENTS; slots past a device's set count are never used)
SetSlots == 2

\* at most this many keys are down in one frame
MaxKeys == 2
\* the largest width and height of a gfx element whose pixels are enumerated
MaxCell == 3
\* the widest cell box and the most columns a layout is asked for
MaxBox == 24
MaxColumns == 6
\* how many times in a row a pan key is applied
MaxPan == 3
\* the largest tilemap, and the largest map box, of the scale computation
MaxMap == 3
MaxMapBox == 12
\* the largest palette whose image is computed on its own
MaxTotal == 20

----------------------------------------------------------------------------
(* Arithmetic helpers *)

Min(a, b) == IF a < b THEN a ELSE b
Max(a, b) == IF a > b THEN a ELSE b

\* C integer division truncates toward zero
CDiv(a, b) ==
    IF a >= 0 THEN a \div b ELSE -((-a) \div b)

\* orientation & bit, for a single-bit mask
HasBit(v, bit) == (v \div bit) % 2 = 1

uint8(v) == v % 256

SlotRange == 0 .. (SetSlots - 1)
DevRange == 0 .. (MAX_GFX_DECODERS - 1)

\* ui_input().pressed(key) / pressed_repeat(key, speed) in this frame
pressed(keys, k) == k \in keys

----------------------------------------------------------------------------
(* Host collaborator: what the viewer reads from the machine *)

\* device_palette_interface::entries() / indirect_entries()
entries(h, iface) == h.pals[iface + 1].entries
indirect_entries(h, iface) == h.pals[iface + 1].indirect

\* palette_interface_enumerator::byindex(): nullptr past the end
byindex(h, index) ==
    IF index >= 0 /\ index < Len(h.pals) THEN index ELSE NULL

\* machine.tilemap().count()
tilemap_count(h) == Len(h.maps)

\* interface.gfx(set)
gfx_of(h, iface, set) == h.gfx[iface][set + 1]

----------------------------------------------------------------------------
(* ui_gfx_init *)

ui_gfx_info_init(rotate) ==
    [ interface   |-> NULL,
      setcount    |-> 0,
      rotate      |-> [j \in SlotRange |-> rotate],
      columns     |-> [j \in SlotRange |-> 16],
      offset      |-> [j \in SlotRange |-> 0],
      color       |-> [j \in SlotRange |-> 0],
      palette     |-> [j \in SlotRange |-> NULL],
      color_count |-> [j \in SlotRange |-> 0] ]

\* The fields ui_gfx_init does not assign (save, palette.offset) keep the
\* value they had: `old` is the state before the call.
ui_gfx_init(old, h) ==
    [ started      |-> FALSE,
      mode         |-> 0,
      save         |-> old.save,
      bitmap_dirty |-> FALSE,
      bitmap       |-> [valid |-> FALSE, width |-> 0, height |-> 0,
                        content |-> <<>>],
      texture      |-> NULL,
      palette      |-> [ interface |-> NULL,
                         devcount  |-> 0,
                         devindex  |-> 0,
                         which     |-> 0,
                         columns   |-> 16,
                         offset    |-> old.palette.offset ],
      gfxset       |-> [devcount |-> 0, devindex |-> 0, set |-> 0],
      gfxdev       |-> [i \in DevRange |-> ui_gfx_info_init(h.rotate)],
      tilemap      |-> [ which  |-> 0,
                         xoffs  |-> 0,
                         yoffs  |-> 0,
                         zoom   |-> 0,
                         rotate |-> h.rotate,
                         flags  |-> TILEMAP_DRAW_ALL_CATEGORIES ] ]

\* static storage: zero initialised before the first ui_gfx_init
ui_gfx_static ==
    [ save |-> FALSE, palette |-> [offset |-> 0] ]

----------------------------------------------------------------------------
(* palette_set_device, ui_gfx_count_devices, ui_gfx_is_relevant *)

palette_set_device(s, h) ==
    [s EXCEPT !.palette.interface = byindex(h, s.palette.devindex)]

\* while (count < MAX_GFX_ELEMENTS && interface.gfx(count) != nullptr) count++
gfx_set_count(dev) == Min(Len(dev), MAX_GFX_ELEMENTS)

\* the per-slot palette and colour range of one enumerated device
count_slot_palette(s, gfx) ==
    IF gfx.pal # NULL THEN gfx.pal ELSE s.palette.interface

count_slot_colors(s, h, gfx) ==
    IF gfx.pal # NULL
    THEN gfx.colors
    ELSE LET c == entries(h, s.palette.interface) \div gfx.granularity
         IN  IF c = 0 THEN 1 ELSE c

RECURSIVE count_gfx_devices(_, _, _)
count_gfx_devices(s, h, i) ==
    IF i > Len(h.gfx)
    THEN s
    ELSE
        LET count == gfx_set_count(h.gfx[i])
            d     == s.gfxset.devcount
        IN
        IF count > 0
        THEN
            LET info ==
                    [s.gfxdev[d] EXCEPT
                        !.interface = i,
                        !.setcount = count,
                        !.palette = [slot \in SlotRange |->
                            IF slot < count
                            THEN count_slot_palette(s, h.gfx[i][slot + 1])
                            ELSE @[slot]],
                        !.color_count = [slot \in SlotRange |->
                            IF slot < count
                            THEN count_slot_colors(s, h, h.gfx[i][slot + 1])
                            ELSE @[slot]]]
                s1 == [s EXCEPT !.gfxdev[d] = info, !.gfxset.devcount = d + 1]
            IN
            IF d + 1 = MAX_GFX_DECODERS
            THEN s1
            ELSE count_gfx_devices(s1, h, i + 1)
        ELSE count_gfx_devices(s, h, i + 1)

ui_gfx_count_devices(s, h) ==
    LET s1 == [s EXCEPT !.palette.devcount = Len(h.pals)]
        s2 == IF s1.palette.devcount > 0 THEN palette_set_device(s1, h) ELSE s1
        s3 == [s2 EXCEPT !.gfxset.devcount = 0]
        s4 == count_gfx_devices(s3, h, 1)
    IN  [s4 EXCEPT !.started = TRUE]

\* the state after ui_gfx_is_relevant, and its result
ui_gfx_is_relevant_state(s, h) ==
    IF ~s.started THEN ui_gfx_count_devices(s, h) ELSE s

\* the value ui_gfx_is_relevant returns, on the counted state
ui_gfx_has_any(s, h) ==
    \/ s.palette.devcount > 0
    \/ s.gfxset.devcount > 0
    \/ tilemap_count(h) > 0

ui_gfx_is_relevant(s, h) ==
    ui_gfx_has_any(ui_gfx_is_relevant_state(s, h), h)

----------------------------------------------------------------------------
(* PALETTE VIEWER *)

\* total = state.palette.which ? indirect_entries() : entries()
palette_total(p, h) ==
    IF p.which # 0
    THEN indirect_entries(h, p.interface)
    ELSE entries(h, p.interface)

\* a zoom without "clamp within range"
palette_zoom_free(p, keys) ==
    LET c1 == IF pressed(keys, "ZOOM_OUT") THEN p.columns \div 2 ELSE p.columns
        c2 == IF pressed(keys, "ZOOM_IN") THEN uint8(c1 * 2) ELSE c1
    IN  [p EXCEPT !.columns = c2]

\* handle zoom (minus,plus) and clamp within range
palette_zoom(p, keys) ==
    LET c1 == IF pressed(keys, "ZOOM_OUT") THEN p.columns \div 2 ELSE p.columns
        c2 == IF pressed(keys, "ZOOM_IN") THEN uint8(c1 * 2) ELSE c1
        c3 == IF c2 <= 4 THEN 4 ELSE c2
        c4 == IF c3 > 64 THEN 64 ELSE c3
    IN  [p EXCEPT !.columns = c4]

\* an open bracket that enters the device before at its pens
palette_prev_group_pens(p, h) ==
    IF p.which # 0
    THEN [p EXCEPT !.which = 0]
    ELSE IF p.devindex > 0
    THEN [p EXCEPT !.devindex = p.devindex - 1,
                   !.interface = byindex(h, p.devindex - 1),
                   !.which = 0]
    ELSE p

\* open bracket
palette_prev_group(p, h) ==
    IF p.which # 0
    THEN [p EXCEPT !.which = 0]
    ELSE IF p.devindex > 0
    THEN LET iface == byindex(h, p.devindex - 1)
         IN  [p EXCEPT !.devindex = p.devindex - 1,
                       !.interface = iface,
                       !.which = IF indirect_entries(h, iface) > 0 THEN 1 ELSE 0]
    ELSE p

\* close bracket
palette_next_group(p, h) ==
    IF p.which = 0 /\ indirect_entries(h, p.interface) > 0
    THEN [p EXCEPT !.which = 1]
    ELSE IF p.devindex < p.devcount - 1
    THEN [p EXCEPT !.devindex = p.devindex + 1,
                   !.interface = byindex(h, p.devindex + 1),
                   !.which = 0]
    ELSE p

\* handle keyboard navigation
palette_navigate(p, total, keys) ==
    LET rowcount    == p.columns
        screencount == rowcount * rowcount
        o1 == IF pressed(keys, "UP") THEN p.offset - rowcount ELSE p.offset
        o2 == IF pressed(keys, "DOWN") THEN o1 + rowcount ELSE o1
        o3 == IF pressed(keys, "PAGE_UP") THEN o2 - screencount ELSE o2
        o4 == IF pressed(keys, "PAGE_DOWN") THEN o3 + screencount ELSE o3
        o5 == IF pressed(keys, "HOME") THEN 0 ELSE o4
        o6 == IF pressed(keys, "END") THEN total ELSE o5
    IN  [p EXCEPT !.offset = o6]

\* a clamp of the low end only
palette_clamp_low(p, total) ==
    [p EXCEPT !.offset = IF p.offset < 0 THEN 0 ELSE p.offset]

\* a clamp of the high end only
palette_clamp_high(p, total) ==
    LET rowcount    == p.columns
        screencount == rowcount * rowcount
        rounded     == ((total + rowcount - 1) \div rowcount) * rowcount
    IN  [p EXCEPT !.offset = IF p.offset + screencount > rounded
                             THEN rounded - screencount
                             ELSE p.offset]

\* clamp within range
palette_clamp_offset(p, total) ==
    LET rowcount    == p.columns
        screencount == rowcount * rowcount
        rounded     == ((total + rowcount - 1) \div rowcount) * rowcount
        o1 == IF p.offset + screencount > rounded
              THEN rounded - screencount
              ELSE p.offset
        o2 == IF o1 < 0 THEN 0 ELSE o1
    IN  [p EXCEPT !.offset = o2]

palette_prev_key(p, h, keys) ==
    IF pressed(keys, "PREV_GROUP") THEN palette_prev_group(p, h) ELSE p

palette_next_key(p, h, keys) ==
    IF pressed(keys, "NEXT_GROUP") THEN palette_next_group(p, h) ELSE p

\* "cache some info in locals", navigation, clamp
palette_scroll(p, h, keys) ==
    palette_clamp_offset(palette_navigate(p, palette_total(p, h), keys),
                         palette_total(p, h))

palette_snapshot_key(s, keys) ==
    IF pressed(keys, "SNAPSHOT") THEN [s EXCEPT !.save = TRUE] ELSE s

palette_handle_keys(s, h, keys) ==
    palette_snapshot_key(
        [s EXCEPT !.palette =
            palette_scroll(
                palette_next_key(
                    palette_prev_key(palette_zoom(@, keys), h, keys),
                    h, keys),
                h, keys)],
        keys)

\* int((mouse_x - cellboxbounds.x0) / cellwidth), at pixel x of a box of
\* boxwidth pixels divided into cells
hover_cell(x, cells, boxwidth) == CDiv(x * cells, boxwidth)

\* cellboxbounds.x0 <= mouse_x && cellboxbounds.x1 > mouse_x && ... for a
\* pointer that find_mouse found and map_point_container mapped
hover_inside(m, boxwidth, boxheight) ==
    /\ m.target
    /\ 0 <= m.x /\ m.x < boxwidth
    /\ 0 <= m.y /\ m.y < boxheight

\* the palette entry under the pointer
palette_hover_index(s, h) ==
    s.palette.offset
        + hover_cell(h.mouse.x, s.palette.columns, h.cellboxwidth)
        + hover_cell(h.mouse.y, s.palette.columns, h.cellboxheight)
            * s.palette.columns

\* "if the mouse pointer is over one of our cells, add some info about the
\* corresponding palette entry": the title alone is written
palette_hover(s, h) ==
    IF /\ hover_inside(h.mouse, h.cellboxwidth, h.cellboxheight)
       /\ palette_hover_index(s, h) < palette_total(s.palette, h)
    THEN [s EXCEPT !.fx.hover = <<[view |-> "palette",
                                   index |-> palette_hover_index(s, h)]>>]
    ELSE s

\* "now add the rectangles for the colors": the entries whose colour the
\* view reads, if (index < total) with both sides int
palette_reads(p, total) ==
    { index \in { p.offset + y * p.columns + x :
                      x \in 0 .. (p.columns - 1), y \in 0 .. (p.columns - 1) } :
        index < total }

\* palette_handler draws from the state, looks under the pointer and then
\* handles the keys
palette_handler(s, h, keys) ==
    palette_handle_keys(palette_hover([s EXCEPT !.fx.pal0 = s.palette], h),
                        h, keys)

\* open_next_file and the write that follows, as the viewer sees them: the
\* file system refuses the files named in h.fail
open_next_file(h, basename, extension) ==
    <<basename, extension, "open">> \notin h.fail

png_write_bitmap(h, basename) ==
    <<basename, "png", "write">> \notin h.fail

\* one line of the export log
Opened(basename, extension, ok) ==
    [ev |-> "open", file |-> basename, ext |-> extension, ok |-> ok,
     data |-> <<>>]

\* data: the size of the image, or the header of the text file
Written(basename, extension, data) ==
    [ev |-> "write", file |-> basename, ext |-> extension, ok |-> TRUE,
     data |-> data]

\* osd_printf_error: ext holds the text
Printed(text, basename) ==
    [ev |-> "print", file |-> basename, ext |-> text, ok |-> TRUE,
     data |-> <<>>]

export_log(s, events) ==
    [s EXCEPT !.fx.out = @ \o events]

\* bitmap_rgb32::allocate(): an empty request leaves the bitmap invalid
bitmap_allocate(width, height) ==
    IF width <= 0 \/ height <= 0
    THEN [valid |-> FALSE, width |-> 0, height |-> 0, content |-> <<>>]
    ELSE [valid |-> TRUE, width |-> width, height |-> height, content |-> <<>>]

\* gfxset_save_snapshot: png_write_bitmap, and a line if it fails; width and
\* height are those of the bitmap handed over
gfxset_save_snapshot(h, basename, width, height) ==
    IF png_write_bitmap(h, basename)
    THEN <<Written(basename, "png", <<width, height>>)>>
    ELSE <<Printed("Error generating PNG for snapshot", basename)>>

\* the colour of an entry as the host's palette holds it: pens are numbered
\* from 1 in each device, indirect colours from 101
palette_pen(iface, which, index) ==
    1 + index + 100 * which + 1000 * iface

\* an image whose bitmap is not cleared: where nothing is drawn the pixels
\* keep what the memory held, here the pen drawn last
palette_save_image_stale(iface, which, total, columns) ==
    LET size_y       == CDiv(total + columns - 1, columns)
        image_width  == columns * 8
        image_height == size_y * 8
    IN  [ width  |-> image_width,
          height |-> image_height,
          dest   |-> [ p \in 0 .. (image_width * image_height - 1) |->
                         LET y     == CDiv(CDiv(p, image_width), 8)
                             x     == CDiv(p % image_width, 8)
                             index == (y * columns) + x
                         IN  palette_pen(iface, which, Min(index, total - 1)) ] ]

\* new bitmap_rgb32(width, height): the pixels of a new bitmap are cleared
bitmap_new(width, height) ==
    [p \in 0 .. (width * height - 1) |-> 0]

\* image_width = size_x * 8, image_height = size_y * 8
palette_image_width(columns) ==
    LET size_x == columns
    IN  size_x * 8

palette_image_height(total, columns) ==
    LET size_y == CDiv(total + columns - 1, columns)
    IN  size_y * 8

\* the image of one palette: size_x by size_y cells of 8 by 8 pixels drawn
\* into a new bitmap; pixel p is dest[p], and (x, y) is the cell whose loops
\* over x1 and y1 reach it
palette_save_image(iface, which, total, columns) ==
    LET image_width  == palette_image_width(columns)
        image_height == palette_image_height(total, columns)
        cleared      == bitmap_new(image_width, image_height)
    IN  [ width  |-> image_width,
          height |-> image_height,
          dest   |-> [ p \in DOMAIN cleared |->
                         LET y     == CDiv(CDiv(p, image_width), 8)
                             x     == CDiv(p % image_width, 8)
                             index == (y * columns) + x
                         IN  IF index < total
                             THEN palette_pen(iface, which, index)
                             ELSE cleared[p] ] ]

\* sprintf(filename, "palette%d %s%d", palidx, paltype, total)
palette_filename(s, h, palidx) ==
    <<"palette", palidx,
      IF indirect_entries(h, s.palette.interface) > 0
      THEN (IF s.palette.which # 0 THEN "colors " ELSE "pens ")
      ELSE "",
      palette_total(s.palette, h)>>

\* the png of one palette, once the text file is written: img_bitmap is
\* new bitmap_rgb32(image_width, image_height), of no size when the palette
\* has no entry
palette_save_png(s, h, basename) ==
    IF open_next_file(h, basename, "png")
    THEN LET img_bitmap ==
                 bitmap_allocate(
                     palette_image_width(s.palette.columns),
                     palette_image_height(palette_total(s.palette, h),
                                          s.palette.columns))
         IN  <<Opened(basename, "png", TRUE)>>
             \o gfxset_save_snapshot(h, basename,
                                      img_bitmap.width, img_bitmap.height)
    ELSE <<Opened(basename, "png", FALSE)>>

\* the files of one palette: the text file, the png, "Saved palette"
palette_save_files(s, h, basename) ==
    IF open_next_file(h, basename, "txt")
    THEN <<Opened(basename, "txt", TRUE),
           Written(basename, "txt",
                   <<palette_total(s.palette, h), s.palette.columns>>)>>
         \o palette_save_png(s, h, basename)
         \o <<Printed("Saved palette", basename)>>
    ELSE <<Opened(basename, "txt", FALSE)>>

\* one pass of the loop over the devices
palette_save_device(s, h, palidx) ==
    export_log(s, palette_save_files(s, h, palette_filename(s, h, palidx)))

\* a loop over the devices that ends at the first text file that does not
\* open
RECURSIVE palette_save_devices_abort(_, _, _)
palette_save_devices_abort(s, h, palidx) ==
    IF palidx >= s.palette.devcount
    THEN s
    ELSE LET s1 == palette_set_device([s EXCEPT !.palette.devindex = palidx], h)
         IN  IF open_next_file(h, palette_filename(s1, h, palidx), "txt")
             THEN palette_save_devices_abort(
                     palette_save_device(s1, h, palidx), h, palidx + 1)
             ELSE palette_save_device(s1, h, palidx)

\* palette_handle_save: the loop over subsets and devices.  `pal` is the
\* local `palette`, which after the first pass is the last device.
RECURSIVE palette_save_devices(_, _, _)
palette_save_devices(s, h, palidx) ==
    IF palidx >= s.palette.devcount
    THEN s
    ELSE palette_save_devices(
            palette_save_device(
                palette_set_device([s EXCEPT !.palette.devindex = palidx], h),
                h, palidx),
            h, palidx + 1)

\* the second pass (w == 1) runs when the device `palette` points at after
\* the first pass has indirect entries
palette_save_indirect(s, h) ==
    IF indirect_entries(h, s.palette.interface) > 0
    THEN palette_save_devices([s EXCEPT !.palette.which = 1], h, 0)
    ELSE s

palette_handle_save(s, h) ==
    export_log(
        palette_save_indirect(
            palette_save_devices([s EXCEPT !.palette.which = 0], h, 0), h),
        <<Printed("Finished saving palettes", <<>>)>>)

----------------------------------------------------------------------------
(* Raster cache: state.bitmap, state.texture, state.bitmap_dirty *)

\* "realloc the bitmap if it is too small"
bitmap_mismatch(s, width, height) ==
    \/ ~s.bitmap.valid
    \/ s.texture = NULL
    \/ s.bitmap.width # width
    \/ s.bitmap.height # height

\* free the old stuff, allocate new stuff, force a redraw
bitmap_realloc(s, width, height) ==
    [s EXCEPT !.bitmap = bitmap_allocate(width, height),
              !.texture = 1,
              !.bitmap_dirty = TRUE,
              !.fx.realloc = @ + 1]

\* the redraw: fill the bitmap from `content`, hand it to the texture, clear dirty
bitmap_redraw(s, content) ==
    [s EXCEPT !.bitmap.content = content,
              !.bitmap_dirty = FALSE,
              !.fx.refill = @ + 1]

----------------------------------------------------------------------------
(* GRAPHICS VIEWER *)

\* orientation_add(orientation1, orientation2) of render.h
orientation_swap_flips(o) ==
    (IF HasBit(o, ORIENTATION_SWAP_XY) THEN ORIENTATION_SWAP_XY ELSE 0)
    + (IF HasBit(o, ORIENTATION_FLIP_X) THEN ORIENTATION_FLIP_Y ELSE 0)
    + (IF HasBit(o, ORIENTATION_FLIP_Y) THEN ORIENTATION_FLIP_X ELSE 0)

BitXor(a, b, bit) ==
    IF HasBit(a, bit) # HasBit(b, bit) THEN bit ELSE 0

Xor3(a, b) ==
    BitXor(a, b, ORIENTATION_FLIP_X) + BitXor(a, b, ORIENTATION_FLIP_Y)
    + BitXor(a, b, ORIENTATION_SWAP_XY)

orientation_add(o1, o2) ==
    IF ~HasBit(o2, ORIENTATION_SWAP_XY)
    THEN Xor3(o1, o2)
    ELSE Xor3(orientation_swap_flips(o1), o2)

\* the gfx_element shown: *info.interface->gfx(set)
gfxset_current(s, h) ==
    gfx_of(h, s.gfxdev[s.gfxset.devindex].interface, s.gfxset.set)

\* "compute the number of source pixels in a cell"
gfxset_cellxpix(rotate, gfx) ==
    1 + (IF HasBit(rotate, ORIENTATION_SWAP_XY) THEN gfx.height ELSE gfx.width)

gfxset_cellypix(rotate, gfx) ==
    1 + (IF HasBit(rotate, ORIENTATION_SWAP_XY) THEN gfx.width ELSE gfx.height)

\* the while loop giving up half of the columns at a time
RECURSIVE gfxset_shrink_halving(_, _, _, _)
gfxset_shrink_halving(cellboxwidth, xcells, cellxpix, pixelscale) ==
    IF xcells > 1
    THEN LET ps == CDiv(CDiv(cellboxwidth, xcells), cellxpix)
         IN  IF ps # 0
             THEN [xcells |-> xcells, pixelscale |-> ps]
             ELSE gfxset_shrink_halving(cellboxwidth, CDiv(xcells, 2), cellxpix, ps)
    ELSE [xcells |-> xcells, pixelscale |-> pixelscale]

\* "compute the largest pixel scale factor that still fits": the while loop
RECURSIVE gfxset_shrink(_, _, _, _)
gfxset_shrink(cellboxwidth, xcells, cellxpix, pixelscale) ==
    IF xcells > 1
    THEN LET ps == CDiv(CDiv(cellboxwidth, xcells), cellxpix)
         IN  IF ps # 0
             THEN [xcells |-> xcells, pixelscale |-> ps]
             ELSE gfxset_shrink(cellboxwidth, xcells - 1, cellxpix, ps)
    ELSE [xcells |-> xcells, pixelscale |-> pixelscale]

\* the loop without "worst case, we need a pixel scale of 1"
gfxset_layout_loop(cellboxwidth, columns, cellxpix) ==
    gfxset_shrink(cellboxwidth, columns, cellxpix, 0)

\* the loop, then "worst case, we need a pixel scale of 1"
gfxset_layout(cellboxwidth, columns, cellxpix) ==
    LET r == gfxset_shrink(cellboxwidth, columns, cellxpix, 0)
    IN  [xcells |-> r.xcells, pixelscale |-> Max(1, r.pixelscale)]

\* "in the Y direction, we just display as many as we can"
gfxset_ycells(cellboxheight, pixelscale, cellypix) ==
    CDiv(cellboxheight, pixelscale * cellypix)

\* gfxset_draw_item: the size of the displayed cell
gfxset_item_width(rotate, gfx) ==
    IF HasBit(rotate, ORIENTATION_SWAP_XY) THEN gfx.height ELSE gfx.width

gfxset_item_height(rotate, gfx) ==
    IF HasBit(rotate, ORIENTATION_SWAP_XY) THEN gfx.width ELSE gfx.height

\* if (rotate & flip) v = extent - 1 - v
gfxset_flip(rotate, flip, extent, v) ==
    IF HasBit(rotate, flip) THEN extent - 1 - v ELSE v

\* a transform that leaves out std::swap(effx, effy)
gfxset_effective_unswapped(rotate, gfx, x, y) ==
    IF ~HasBit(rotate, ORIENTATION_SWAP_XY)
    THEN [ effx |-> gfxset_flip(rotate, ORIENTATION_FLIP_X, gfx.width, x),
           effy |-> gfxset_flip(rotate, ORIENTATION_FLIP_Y, gfx.height, y) ]
    ELSE [ effx |-> gfxset_flip(rotate, ORIENTATION_FLIP_X, gfx.height, x),
           effy |-> gfxset_flip(rotate, ORIENTATION_FLIP_Y, gfx.width, y) ]

\* a transform whose flips under SWAP_XY measure against the set's own
\* width and height, as they do without it
gfxset_effective_own(rotate, gfx, x, y) ==
    IF ~HasBit(rotate, ORIENTATION_SWAP_XY)
    THEN [ effx |-> gfxset_flip(rotate, ORIENTATION_FLIP_X, gfx.width, x),
           effy |-> gfxset_flip(rotate, ORIENTATION_FLIP_Y, gfx.height, y) ]
    ELSE [ effx |-> gfxset_flip(rotate, ORIENTATION_FLIP_Y, gfx.height, y),
           effy |-> gfxset_flip(rotate, ORIENTATION_FLIP_X, gfx.width, x) ]

\* "compute effective x,y values after rotation": the source pixel read for
\* the pixel (x, y) of the displayed cell
gfxset_effective(rotate, gfx, x, y) ==
    IF ~HasBit(rotate, ORIENTATION_SWAP_XY)
    THEN [ effx |-> gfxset_flip(rotate, ORIENTATION_FLIP_X, gfx.width, x),
           effy |-> gfxset_flip(rotate, ORIENTATION_FLIP_Y, gfx.height, y) ]
    ELSE \* std::swap(effx, effy) comes last
         [ effx |-> gfxset_flip(rotate, ORIENTATION_FLIP_Y, gfx.width, y),
           effy |-> gfxset_flip(rotate, ORIENTATION_FLIP_X, gfx.height, x) ]

\* "extract the pixel": 0xff000000 | palette[s[effx]], with s the source row
\* effy of the element and palette the raw entries from
\* gfx.colorbase() + color * gfx.granularity() on; the pixel as its bytes,
\* the alpha byte 0xff and the 24 bits below it those of the palette entry
gfxset_extract(gfx, src, rowbytes, raw, color, eff) ==
    [ a   |-> 255,
      rgb |-> raw[gfx.colorbase + color * gfx.granularity
                    + src[eff.effy * rowbytes + eff.effx]] % 16777216 ]

\* gfxset_draw_item: the pixel written at each position (x, y) of the cell,
\* counted from (dstx, dsty)
gfxset_draw_item(gfx, src, rowbytes, raw, color, rotate) ==
    [ c \in (0 .. (gfxset_item_width(rotate, gfx) - 1))
              \X (0 .. (gfxset_item_height(rotate, gfx) - 1)) |->
        gfxset_extract(gfx, src, rowbytes, raw, color,
                       gfxset_effective(rotate, gfx, c[1], c[2])) ]

\* an export transform that exchanges the axes before it flips them
gfxset_save_effective_swapfirst(rotate, gfx, x, y) ==
    IF ~HasBit(rotate, ORIENTATION_SWAP_XY)
    THEN [ effx |-> gfxset_flip(rotate, ORIENTATION_FLIP_X, gfx.width, x),
           effy |-> gfxset_flip(rotate, ORIENTATION_FLIP_Y, gfx.height, y) ]
    ELSE [ effx |-> gfxset_flip(rotate, ORIENTATION_FLIP_X, gfx.width, y),
           effy |-> gfxset_flip(rotate, ORIENTATION_FLIP_Y, gfx.height, x) ]

\* gfxset_draw_save_item, "compute effective x,y values after rotation"
gfxset_save_effective(rotate, gfx, x, y) ==
    IF ~HasBit(rotate, ORIENTATION_SWAP_XY)
    THEN [ effx |-> gfxset_flip(rotate, ORIENTATION_FLIP_X, gfx.width, x),
           effy |-> gfxset_flip(rotate, ORIENTATION_FLIP_Y, gfx.height, y) ]
    ELSE \* temp = effx; effx = effy; effy = temp; comes last
         [ effx |-> gfxset_flip(rotate, ORIENTATION_FLIP_Y, gfx.width, y),
           effy |-> gfxset_flip(rotate, ORIENTATION_FLIP_X, gfx.height, x) ]

\* gfxset_draw_save_item: the pixel written at each position (x, y) of the
\* cell, counted from (dstx, dsty)
gfxset_draw_save_item(gfx, src, rowbytes, raw, color, rotate) ==
    [ c \in (0 .. (gfxset_item_width(rotate, gfx) - 1))
              \X (0 .. (gfxset_item_height(rotate, gfx) - 1)) |->
        gfxset_extract(gfx, src, rowbytes, raw, color,
                       gfxset_save_effective(rotate, gfx, c[1], c[2])) ]

\* what a redraw of the live view depends on
gfxset_content(s, xcells, ycells) ==
    LET dev  == s.gfxset.devindex
        set  == s.gfxset.set
        info == s.gfxdev[dev]
    IN  <<"gfxset", dev, set, info.offset[set], info.color[set],
          info.rotate[set], xcells, ycells>>

\* "realloc the bitmap if it is too small"
bitmap_ensure(s, width, height) ==
    IF bitmap_mismatch(s, width, height)
    THEN bitmap_realloc([s EXCEPT !.fx.want = <<width, height>>], width, height)
    ELSE [s EXCEPT !.fx.want = <<width, height>>]

\* "handle the redraw"
gfxset_redraw(s, xcells, ycells) ==
    IF s.bitmap_dirty
    THEN bitmap_redraw(s, gfxset_content(s, xcells, ycells))
    ELSE s

\* a field of the visible set: info.<field>[set]
gfx_get(s, field) ==
    s.gfxdev[s.gfxset.devindex][field][s.gfxset.set]

gfxset_update_bitmap(s, xcells, ycells, gfx) ==
    gfxset_redraw(
        bitmap_ensure(s,
            gfxset_cellxpix(gfx_get(s, "rotate"), gfx) * xcells,
            gfxset_cellypix(gfx_get(s, "rotate"), gfx) * ycells),
        xcells, ycells)

\* { info.<field>[set] = v; state.bitmap_dirty = true; }
gfx_put(s, field, v) ==
    [s EXCEPT !.gfxdev[s.gfxset.devindex][field][s.gfxset.set] = v,
              !.bitmap_dirty = TRUE]

\* handle gfxset selection (open bracket,close bracket)
gfxset_prev_group(s) ==
    IF s.gfxset.set > 0
    THEN [s EXCEPT !.gfxset.set = @ - 1, !.bitmap_dirty = TRUE]
    ELSE IF s.gfxset.devindex > 0
    THEN [s EXCEPT !.gfxset.devindex = @ - 1,
                   !.gfxset.set = uint8(s.gfxdev[s.gfxset.devindex - 1].setcount - 1),
                   !.bitmap_dirty = TRUE]
    ELSE [s EXCEPT !.bitmap_dirty = TRUE]

\* a close bracket that goes round to the first set of the first device
gfxset_next_group_wrap(s) ==
    IF s.gfxset.set < s.gfxdev[s.gfxset.devindex].setcount - 1
    THEN [s EXCEPT !.gfxset.set = @ + 1, !.bitmap_dirty = TRUE]
    ELSE IF s.gfxset.devindex < s.gfxset.devcount - 1
    THEN [s EXCEPT !.gfxset.devindex = @ + 1, !.gfxset.set = 0,
                   !.bitmap_dirty = TRUE]
    ELSE [s EXCEPT !.gfxset.devindex = 0, !.gfxset.set = 0,
                   !.bitmap_dirty = TRUE]

gfxset_next_group(s) ==
    IF s.gfxset.set < s.gfxdev[s.gfxset.devindex].setcount - 1
    THEN [s EXCEPT !.gfxset.set = @ + 1, !.bitmap_dirty = TRUE]
    ELSE IF s.gfxset.devindex < s.gfxset.devcount - 1
    THEN [s EXCEPT !.gfxset.devindex = @ + 1, !.gfxset.set = 0,
                   !.bitmap_dirty = TRUE]
    ELSE [s EXCEPT !.bitmap_dirty = TRUE]

gfxset_prev_key(s, keys) ==
    IF pressed(keys, "PREV_GROUP") THEN gfxset_prev_group(s) ELSE s

gfxset_next_key(s, keys) ==
    IF pressed(keys, "NEXT_GROUP") THEN gfxset_next_group(s) ELSE s

\* handle cells per line (minus,plus)
gfxset_zoom_out(s, keys, xcells) ==
    IF pressed(keys, "ZOOM_OUT") THEN gfx_put(s, "columns", uint8(xcells - 1)) ELSE s

gfxset_zoom_in(s, keys, xcells) ==
    IF pressed(keys, "ZOOM_IN") THEN gfx_put(s, "columns", uint8(xcells + 1)) ELSE s

\* clamp within range
gfxset_columns_low(s) ==
    IF gfx_get(s, "columns") < 2 THEN gfx_put(s, "columns", 2) ELSE s

gfxset_columns_high(s) ==
    IF gfx_get(s, "columns") > 128 THEN gfx_put(s, "columns", 128) ELSE s

gfxset_zoom(s, keys, xcells) ==
    gfxset_columns_high(gfxset_columns_low(
        gfxset_zoom_in(gfxset_zoom_out(s, keys, xcells), keys, xcells)))

\* handle rotation (R)
gfxset_rotate(s, keys) ==
    IF pressed(keys, "ROTATE")
    THEN gfx_put(s, "rotate", orientation_add(ROT90, gfx_get(s, "rotate")))
    ELSE s

\* handle navigation within the cells (up,down,pgup,pgdown)
gfxset_scroll_key(s, keys, key, delta) ==
    IF pressed(keys, key) THEN gfx_put(s, "offset", gfx_get(s, "offset") + delta) ELSE s

gfxset_home_key(s, keys) ==
    IF pressed(keys, "HOME") THEN gfx_put(s, "offset", 0) ELSE s

gfxset_end_key(s, keys, elements) ==
    IF pressed(keys, "END") THEN gfx_put(s, "offset", elements) ELSE s

gfxset_navigate(s, keys, xcells, ycells, elements) ==
    gfxset_end_key(
        gfxset_home_key(
            gfxset_scroll_key(
                gfxset_scroll_key(
                    gfxset_scroll_key(
                        gfxset_scroll_key(s, keys, "UP", -xcells),
                        keys, "DOWN", xcells),
                    keys, "PAGE_UP", -(xcells * ycells)),
                keys, "PAGE_DOWN", xcells * ycells),
            keys),
        keys, elements)

\* clamp within range
gfxset_rounded(xcells, elements) ==
    CDiv(elements + xcells - 1, xcells) * xcells

\* an int compared with the unsigned element count converts to unsigned:
\* a negative left side is then larger than any count
u32_gt(a, b) == a < 0 \/ a > b

\* the elements a redraw of the live view hands to gfxset_draw_item: "only
\* display if there is data to show", "only render if there is data", an int
\* against the unsigned element count each time
gfxset_reads(offset, xcells, ycells, elements) ==
    { offset + c[2] * xcells + c[1] :
        c \in { c \in (0 .. (xcells - 1)) \X (0 .. (ycells - 1)) :
                  /\ ~u32_gt(offset + c[2] * xcells, elements - 1)
                  /\ ~u32_gt(offset + c[2] * xcells + c[1], elements - 1) } }

gfxset_offset_high(s, xcells, ycells, elements) ==
    IF u32_gt(gfx_get(s, "offset") + xcells * ycells, gfxset_rounded(xcells, elements))
    THEN gfx_put(s, "offset", gfxset_rounded(xcells, elements) - xcells * ycells)
    ELSE s

gfxset_offset_low(s) ==
    IF gfx_get(s, "offset") < 0 THEN gfx_put(s, "offset", 0) ELSE s

gfxset_clamp_offset(s, xcells, ycells, elements) ==
    gfxset_offset_low(gfxset_offset_high(s, xcells, ycells, elements))

\* handle color selection (left,right)
gfxset_color_key(s, keys, key, delta) ==
    IF pressed(keys, key) THEN gfx_put(s, "color", gfx_get(s, "color") + delta) ELSE s

\* no clamp at the top of the colour range
gfxset_color_high_none(s) == s

\* clamp within range
gfxset_color_high(s) ==
    IF gfx_get(s, "color") >= gfx_get(s, "color_count")
    THEN gfx_put(s, "color", gfx_get(s, "color_count") - 1)
    ELSE s

gfxset_color_low(s) ==
    IF gfx_get(s, "color") < 0 THEN gfx_put(s, "color", 0) ELSE s

gfxset_select_color(s, keys) ==
    gfxset_color_low(gfxset_color_high(
        gfxset_color_key(gfxset_color_key(s, keys, "LEFT", -1), keys, "RIGHT", 1)))

gfxset_snapshot_key(s, keys) ==
    IF pressed(keys, "SNAPSHOT") THEN [s EXCEPT !.save = TRUE] ELSE s

\* the keys that act on the set visible after the bracket keys
gfxset_set_keys(s, keys, xcells, ycells, elements) ==
    gfxset_snapshot_key(
        gfxset_select_color(
            gfxset_clamp_offset(
                gfxset_navigate(
                    gfxset_rotate(gfxset_zoom(s, keys, xcells), keys),
                    keys, xcells, ycells, elements),
                xcells, ycells, elements),
            keys),
        keys)

\* "cache some info in locals": gfx is the set visible after the brackets
gfxset_after_brackets(s, h, keys, xcells, ycells) ==
    gfxset_set_keys(s, keys, xcells, ycells, gfxset_current(s, h).elements)

gfxset_handle_keys(s, h, keys, xcells, ycells) ==
    gfxset_after_brackets(
        gfxset_next_key(gfxset_prev_key(s, keys), keys),
        h, keys, xcells, ycells)

\* the layout of the visible set: columns, pixel scale and rows
gfxset_view_layout(s, h) ==
    LET gfx == gfxset_current(s, h)
        lay == gfxset_layout(h.cellboxwidth, gfx_get(s, "columns"),
                             gfxset_cellxpix(gfx_get(s, "rotate"), gfx))
    IN  [ xcells     |-> lay.xcells,
          pixelscale |-> lay.pixelscale,
          ycells     |-> gfxset_ycells(h.cellboxheight, lay.pixelscale,
                                       gfxset_cellypix(gfx_get(s, "rotate"), gfx)) ]

\* "now determine the actual cellbox size"
gfxset_cellboxwidth(s, h, lay) ==
    Min(h.cellboxwidth,
        lay.xcells * lay.pixelscale
            * gfxset_cellxpix(gfx_get(s, "rotate"), gfxset_current(s, h)))

gfxset_cellboxheight(s, h, lay) ==
    Min(h.cellboxheight,
        lay.ycells * lay.pixelscale
            * gfxset_cellypix(gfx_get(s, "rotate"), gfxset_current(s, h)))

\* the element under the pointer, and the pixel of its cell
gfxset_hover_code(s, h, lay) ==
    gfx_get(s, "offset")
        + hover_cell(h.mouse.x, lay.xcells, gfxset_cellboxwidth(s, h, lay))
        + hover_cell(h.mouse.y, lay.ycells, gfxset_cellboxheight(s, h, lay))
            * lay.xcells

gfxset_hover_xpixel(s, h, lay) ==
    LET cellxpix == gfxset_cellxpix(gfx_get(s, "rotate"), gfxset_current(s, h))
    IN  hover_cell(h.mouse.x, lay.xcells * cellxpix,
                   gfxset_cellboxwidth(s, h, lay)) % cellxpix

gfxset_hover_ypixel(s, h, lay) ==
    LET cellypix == gfxset_cellypix(gfx_get(s, "rotate"), gfxset_current(s, h))
    IN  hover_cell(h.mouse.y, lay.ycells * cellypix,
                   gfxset_cellboxheight(s, h, lay)) % cellypix

\* a hover that exchanges the axes before it flips them
gfxset_hover_pixel_swapfirst(rotate, cellxpix, cellypix, xpixel, ypixel) ==
    LET sx == IF HasBit(rotate, ORIENTATION_SWAP_XY) THEN ypixel ELSE xpixel
        sy == IF HasBit(rotate, ORIENTATION_SWAP_XY) THEN xpixel ELSE ypixel
        ex == IF HasBit(rotate, ORIENTATION_SWAP_XY) THEN cellypix ELSE cellxpix
        ey == IF HasBit(rotate, ORIENTATION_SWAP_XY) THEN cellxpix ELSE cellypix
    IN  [ xpixel |-> IF HasBit(rotate, ORIENTATION_FLIP_X)
                     THEN (ex - 2) - sx ELSE sx,
          ypixel |-> IF HasBit(rotate, ORIENTATION_FLIP_Y)
                     THEN (ey - 2) - sy ELSE sy ]

\* the flips and the swap that take the pixel of the cell to the pixel of
\* the element
gfxset_hover_pixel(rotate, cellxpix, cellypix, xpixel, ypixel) ==
    LET fx == IF HasBit(rotate, ORIENTATION_FLIP_X)
              THEN (cellxpix - 2) - xpixel ELSE xpixel
        fy == IF HasBit(rotate, ORIENTATION_FLIP_Y)
              THEN (cellypix - 2) - ypixel ELSE ypixel
    IN  IF HasBit(rotate, ORIENTATION_SWAP_XY)
        THEN [xpixel |-> fy, ypixel |-> fx]
        ELSE [xpixel |-> fx, ypixel |-> fy]

\* "if the mouse pointer is over a pixel in a tile, add some info about the
\* tile and pixel": the title alone is written.  code < gfx.elements() is an
\* int against the unsigned element count
gfxset_hover(s, h, lay) ==
    LET gfx == gfxset_current(s, h)
        rotate == gfx_get(s, "rotate")
        cellxpix == gfxset_cellxpix(rotate, gfx)
        cellypix == gfxset_cellypix(rotate, gfx)
    IN  IF /\ hover_inside(h.mouse, gfxset_cellboxwidth(s, h, lay),
                           gfxset_cellboxheight(s, h, lay))
           /\ ~u32_gt(gfxset_hover_code(s, h, lay), gfx.elements - 1)
           /\ gfxset_hover_xpixel(s, h, lay) < cellxpix - 1
           /\ gfxset_hover_ypixel(s, h, lay) < cellypix - 1
        THEN LET pix == gfxset_hover_pixel(rotate, cellxpix, cellypix,
                                           gfxset_hover_xpixel(s, h, lay),
                                           gfxset_hover_ypixel(s, h, lay))
             IN  [s EXCEPT !.fx.hover =
                     <<[ view   |-> "gfxset",
                         code   |-> gfxset_hover_code(s, h, lay),
                         color  |-> gfx_get(s, "color"),
                         xpixel |-> pix.xpixel,
                         ypixel |-> pix.ypixel ]>>]
        ELSE s

\* info.columns[set] = xcells; look under the pointer; update the bitmap;
\* handle the keys
gfxset_show(s, h, keys, lay) ==
    gfxset_handle_keys(
        gfxset_update_bitmap(
            gfxset_hover(
                [s EXCEPT !.gfxdev[s.gfxset.devindex].columns[s.gfxset.set] = lay.xcells],
                h, lay),
            lay.xcells, lay.ycells, gfxset_current(s, h)),
        h, keys, lay.xcells, lay.ycells)

gfxset_handler(s, h, keys) ==
    gfxset_show(s, h, keys, gfxset_view_layout(s, h))

\* sprintf(filename, "gfxset%d tiles %dx%d colors %d set %X", ...)
gfxset_filename(gfx, set, color) ==
    <<"gfxset", set, gfx.width, gfx.height, gfx.colors, color>>

\* gfxset_update_save_bitmap: 32 columns of cells without the border pixel
gfxset_save_width(s, gfx, xcells) ==
    xcells * (IF HasBit(gfx_get(s, "rotate"), ORIENTATION_SWAP_XY)
              THEN gfx.height ELSE gfx.width)

gfxset_save_height(s, gfx, ycells) ==
    ycells * (IF HasBit(gfx_get(s, "rotate"), ORIENTATION_SWAP_XY)
              THEN gfx.width ELSE gfx.height)

\* "save the file": the png of one colour of one set, "Saved gfxset"
gfxset_save_file(h, basename, width, height) ==
    IF open_next_file(h, basename, "png")
    THEN <<Opened(basename, "png", TRUE)>>
         \o gfxset_save_snapshot(h, basename, width, height)
         \o <<Printed("Saved gfxset", basename)>>
    ELSE <<Opened(basename, "png", FALSE)>>

\* the body of the loop over the colours: the writes to the viewer state
gfxset_save_select(s, h, set, color) ==
    palette_set_device(
        [s EXCEPT !.gfxset.set = set,
                  !.gfxdev[s.gfxset.devindex].color[set] = color,
                  !.palette.which = 0,
                  !.palette.devindex = 0],
        h)

\* gfxset_update_save_bitmap: the private bitmap of one set.  Cell c of the
\* xcells by ycells grid holds element info.offset[set] + c when the index
\* of the first cell of its row and its own index are both below
\* gfx.elements() (int against u32 each time) and is filled with 0
\* otherwise; TRANSPARENT stands for a cell filled with 0.  width and height
\* are the size asked of bitmap.allocate
gfxset_update_save_bitmap(s, xcells, ycells, gfx) ==
    [ dev    |-> s.gfxset.devindex,
      set    |-> s.gfxset.set,
      color  |-> gfx_get(s, "color"),
      rotate |-> gfx_get(s, "rotate"),
      xcells |-> xcells,
      ycells |-> ycells,
      width  |-> gfxset_save_width(s, gfx, xcells),
      height |-> gfxset_save_height(s, gfx, ycells),
      cells  |-> [ c \in 0 .. (xcells * ycells - 1) |->
                     LET row   == gfx_get(s, "offset") + CDiv(c, xcells) * xcells
                         index == gfx_get(s, "offset") + c
                     IN  IF /\ ~u32_gt(row, gfx.elements - 1)
                            /\ ~u32_gt(index, gfx.elements - 1)
                         THEN index
                         ELSE TRANSPARENT ] ]

\* the local bitmap of gfxset_handle_save after gfxset_update_save_bitmap
export_raster(s, raster) ==
    [s EXCEPT !.fx.rasters = Append(@, raster)]

\* an export that builds its raster in state.bitmap
gfxset_save_raster_shared(s, h, gfx, set, color, raster) ==
    export_log(
        export_raster(bitmap_realloc(s, raster.width, raster.height), raster),
        gfxset_save_file(h, gfxset_filename(gfx, set, color),
                         bitmap_allocate(raster.width, raster.height).width,
                         bitmap_allocate(raster.width, raster.height).height))

\* "update the bitmap" and "save the file": the file holds the local bitmap,
\* of no size when the set has no element
gfxset_save_raster(s, h, gfx, set, color, raster) ==
    export_log(
        export_raster(s, raster),
        gfxset_save_file(h, gfxset_filename(gfx, set, color),
                         bitmap_allocate(raster.width, raster.height).width,
                         bitmap_allocate(raster.width, raster.height).height))

\* the body of the loop over the colours
gfxset_save_color(s, h, gfx, set, color) ==
    gfxset_save_raster(
        gfxset_save_select(s, h, set, color), h, gfx, set, color,
        gfxset_update_save_bitmap(
            [s EXCEPT !.gfxset.set = set,
                      !.gfxdev[s.gfxset.devindex].color[set] = color],
            32, CDiv(gfx.elements + 32 - 1, 32), gfx))

\* gfxset_handle_save: the loops over the sets of the selected device and
\* over the colours of each set
RECURSIVE gfxset_save_colors(_, _, _, _, _)
gfxset_save_colors(s, h, set, color, maxcolors) ==
    IF color >= maxcolors
    THEN s
    ELSE CHOOSE r \in
            { gfxset_save_colors(s1, h, set, color + 1, maxcolors) :
                s1 \in { gfxset_save_color(s, h,
                            gfx_of(h, s.gfxdev[s.gfxset.devindex].interface, set),
                            set, color) } } : TRUE

RECURSIVE gfxset_save_sets(_, _, _)
gfxset_save_sets(s, h, set) ==
    LET info == s.gfxdev[s.gfxset.devindex]
    IN
    IF set >= info.setcount
    THEN s
    ELSE LET gfx       == gfx_of(h, info.interface, set)
             maxcolors == IF gfx.colors > 32 THEN 32 ELSE gfx.colors
             s1        == IF indirect_entries(h, gfx.pal) > 0
                          THEN [s EXCEPT !.palette.which = 1]
                          ELSE s
         IN  gfxset_save_sets(gfxset_save_colors(s1, h, set, 0, maxcolors), h, set + 1)

gfxset_handle_save(s, h) ==
    export_log(gfxset_save_sets(s, h, 0),
               <<Printed("Finished saving gfxsets", <<>>)>>)

----------------------------------------------------------------------------
(* TILEMAP VIEWER *)

\* machine.tilemap().find(which)
tilemap_find(h, which) == h.maps[which + 1]

\* a for loop that also takes a scale that fits exactly
RECURSIVE tilemap_maxscale_exact(_, _, _)
tilemap_maxscale_exact(mapdim, mapbox, scale) ==
    IF mapdim * (scale + 1) <= mapbox
    THEN tilemap_maxscale_exact(mapdim, mapbox, scale + 1)
    ELSE scale

\* "determine the maximum integral scaling factor": one of the two for loops
RECURSIVE tilemap_maxscale(_, _, _)
tilemap_maxscale(mapdim, mapbox, scale) ==
    IF mapdim * (scale + 1) < mapbox
    THEN tilemap_maxscale(mapdim, mapbox, scale + 1)
    ELSE scale

tilemap_pixelscale(zoom, mapwidth, mapheight, mapboxwidth, mapboxheight) ==
    IF zoom = 0
    THEN Min(tilemap_maxscale(mapwidth, mapboxwidth, 1),
             tilemap_maxscale(mapheight, mapboxheight, 1))
    ELSE zoom

\* what a redraw of the tilemap view draws: bitmap.fill(0), then draw_debug
\* of the tilemap if (first_screen), so the fill alone on a machine with no
\* screen device
tilemap_content(s, h) ==
    IF h.screen
    THEN <<"tilemap", s.tilemap.which, s.tilemap.xoffs, s.tilemap.yoffs, s.tilemap.flags>>
    ELSE <<"fill", 0>>

\* "handle the redraw"
tilemap_redraw(s, h) ==
    IF s.bitmap_dirty
    THEN bitmap_redraw(s, tilemap_content(s, h))
    ELSE s

\* "swap the coordinates back if they were talking about a rotated surface"
tilemap_update_bitmap(s, h, width, height) ==
    tilemap_redraw(
        IF HasBit(s.tilemap.rotate, ORIENTATION_SWAP_XY)
        THEN bitmap_ensure(s, height, width)
        ELSE bitmap_ensure(s, width, height),
        h)

\* { state.tilemap.<field> = v; state.bitmap_dirty = true; }
tilemap_put(s, field, v) ==
    [s EXCEPT !.tilemap[field] = v, !.bitmap_dirty = TRUE]

\* handle tilemap selection (open bracket,close bracket)
tilemap_prev_key(s, keys) ==
    IF pressed(keys, "PREV_GROUP") /\ s.tilemap.which > 0
    THEN tilemap_put(s, "which", s.tilemap.which - 1)
    ELSE s

tilemap_next_key(s, h, keys) ==
    IF pressed(keys, "NEXT_GROUP") /\ s.tilemap.which < tilemap_count(h) - 1
    THEN tilemap_put(s, "which", s.tilemap.which + 1)
    ELSE s

\* handle zoom (minus,plus)
tilemap_zoom_out(s, keys) ==
    IF pressed(keys, "ZOOM_OUT") /\ s.tilemap.zoom > 0
    THEN tilemap_put(s, "zoom", s.tilemap.zoom - 1)
    ELSE s

tilemap_zoom_in(s, keys) ==
    IF pressed(keys, "ZOOM_IN") /\ s.tilemap.zoom < 8
    THEN tilemap_put(s, "zoom", s.tilemap.zoom + 1)
    ELSE s

\* handle rotation (R)
tilemap_rotate(s, keys) ==
    IF pressed(keys, "ROTATE")
    THEN tilemap_put(s, "rotate", orientation_add(ROT90, s.tilemap.rotate))
    ELSE s

\* return to (0,0) (HOME)
tilemap_home(s, keys) ==
    IF pressed(keys, "HOME")
    THEN [s EXCEPT !.tilemap.xoffs = 0, !.tilemap.yoffs = 0, !.bitmap_dirty = TRUE]
    ELSE s

\* handle flags (category)
tilemap_page_up(s, keys) ==
    IF pressed(keys, "PAGE_UP") /\ s.tilemap.flags # TILEMAP_DRAW_ALL_CATEGORIES
    THEN tilemap_put(s, "flags",
            IF s.tilemap.flags > 0
            THEN s.tilemap.flags - 1
            ELSE TILEMAP_DRAW_ALL_CATEGORIES)
    ELSE s

\* a Page Down that goes on past the last category
tilemap_page_down_free(s, keys) ==
    IF pressed(keys, "PAGE_DOWN")
    THEN tilemap_put(s, "flags",
            IF s.tilemap.flags = TILEMAP_DRAW_ALL_CATEGORIES
            THEN 0
            ELSE s.tilemap.flags + 1)
    ELSE s

tilemap_page_down(s, keys) ==
    IF /\ pressed(keys, "PAGE_DOWN")
       /\ \/ s.tilemap.flags < TILEMAP_DRAW_CATEGORY_MASK
          \/ s.tilemap.flags = TILEMAP_DRAW_ALL_CATEGORIES
    THEN tilemap_put(s, "flags",
            IF s.tilemap.flags = TILEMAP_DRAW_ALL_CATEGORIES
            THEN 0
            ELSE s.tilemap.flags + 1)
    ELSE s

\* int step = 8; LSHIFT: 1; LCONTROL: 64
tilemap_step(keys) ==
    IF pressed(keys, "LCONTROL") THEN 64
    ELSE IF pressed(keys, "LSHIFT") THEN 1
    ELSE 8

\* (state.tilemap.rotate & flip) ? -step : step
tilemap_signed_step(s, keys, flip) ==
    IF HasBit(s.tilemap.rotate, flip) THEN -tilemap_step(keys) ELSE tilemap_step(keys)

\* handle navigation (up,down,left,right), taking orientation into account:
\* one arrow key, moving along axis or, under SWAP_XY, along the other
tilemap_arrow(s, keys, key, axis, other, flip, sign) ==
    IF pressed(keys, key)
    THEN IF HasBit(s.tilemap.rotate, ORIENTATION_SWAP_XY)
         THEN tilemap_put(s, other,
                  s.tilemap[other] + sign * tilemap_signed_step(s, keys, flip))
         ELSE tilemap_put(s, axis,
                  s.tilemap[axis] + sign * tilemap_signed_step(s, keys, flip))
    ELSE s

tilemap_pan(s, keys) ==
    tilemap_arrow(
        tilemap_arrow(
            tilemap_arrow(
                tilemap_arrow(s, keys, "UP", "yoffs", "xoffs", ORIENTATION_FLIP_Y, -1),
                keys, "DOWN", "yoffs", "xoffs", ORIENTATION_FLIP_Y, 1),
            keys, "LEFT", "xoffs", "yoffs", ORIENTATION_FLIP_X, -1),
        keys, "RIGHT", "xoffs", "yoffs", ORIENTATION_FLIP_X, 1)

\* clamp within range: the two while loops of one axis
RECURSIVE tilemap_wrap_up(_, _)
tilemap_wrap_up(offs, dim) ==
    IF offs < 0 THEN tilemap_wrap_up(offs + dim, dim) ELSE offs

RECURSIVE tilemap_wrap_down(_, _)
tilemap_wrap_down(offs, dim) ==
    IF offs >= dim THEN tilemap_wrap_down(offs - dim, dim) ELSE offs

\* an offset held at the edges of the map
tilemap_wrap_saturate(offs, dim) ==
    Max(0, Min(dim - 1, offs))

tilemap_wrap(offs, dim) ==
    tilemap_wrap_down(tilemap_wrap_up(offs, dim), dim)

\* a key pass without "clamp within range"
tilemap_clamp_none(s, map) == s

\* "cache some info in locals": the tilemap selected after the brackets
tilemap_clamp(s, map) ==
    [s EXCEPT !.tilemap.xoffs = tilemap_wrap(@, map.width),
              !.tilemap.yoffs = tilemap_wrap(@, map.height)]

\* handle save gfx
tilemap_snapshot_key(s, keys) ==
    IF pressed(keys, "SNAPSHOT") THEN [s EXCEPT !.save = TRUE] ELSE s

tilemap_map_keys(s, keys, map) ==
    tilemap_snapshot_key(
        tilemap_clamp(
            tilemap_pan(
                tilemap_page_down(
                    tilemap_page_up(
                        tilemap_home(
                            tilemap_rotate(
                                tilemap_zoom_in(tilemap_zoom_out(s, keys), keys),
                                keys),
                            keys),
                        keys),
                    keys),
                keys),
            map),
        keys)

tilemap_after_brackets(s, h, keys) ==
    tilemap_map_keys(s, keys, tilemap_find(h, s.tilemap.which))

tilemap_handle_keys(s, h, keys) ==
    tilemap_after_brackets(
        tilemap_next_key(tilemap_prev_key(s, keys), h, keys),
        h, keys)

\* the size of the tilemap as displayed: swapped under SWAP_XY
tilemap_mapwidth(s, h) ==
    IF HasBit(s.tilemap.rotate, ORIENTATION_SWAP_XY)
    THEN tilemap_find(h, s.tilemap.which).height
    ELSE tilemap_find(h, s.tilemap.which).width

tilemap_mapheight(s, h) ==
    IF HasBit(s.tilemap.rotate, ORIENTATION_SWAP_XY)
    THEN tilemap_find(h, s.tilemap.which).width
    ELSE tilemap_find(h, s.tilemap.which).height

\* the view of the tilemap: pixel scale and final box
tilemap_view_layout(s, h) ==
    LET pixelscale == tilemap_pixelscale(s.tilemap.zoom,
                          tilemap_mapwidth(s, h), tilemap_mapheight(s, h),
                          h.mapboxwidth, h.mapboxheight)
    IN  [ pixelscale   |-> pixelscale,
          mapboxwidth  |-> Min(h.mapboxwidth, tilemap_mapwidth(s, h) * pixelscale),
          mapboxheight |-> Min(h.mapboxheight, tilemap_mapheight(s, h) * pixelscale) ]

\* a transform that swaps the axes before it flips them
tilemap_hover_pixel_swapfirst(rotate, mapboxwidth, mapboxheight, x, y) ==
    LET sx == IF HasBit(rotate, ORIENTATION_SWAP_XY) THEN y ELSE x
        sy == IF HasBit(rotate, ORIENTATION_SWAP_XY) THEN x ELSE y
    IN  [ xpixel |-> IF HasBit(rotate, ORIENTATION_FLIP_X)
                     THEN (mapboxwidth - 1) - sx ELSE sx,
          ypixel |-> IF HasBit(rotate, ORIENTATION_FLIP_Y)
                     THEN (mapboxheight - 1) - sy ELSE sy ]

\* the flips and the swap that take the pixel of the map box to the pixel
\* of the tilemap, before scale and offset
tilemap_hover_pixel(rotate, mapboxwidth, mapboxheight, x, y) ==
    LET fx == IF HasBit(rotate, ORIENTATION_FLIP_X)
              THEN (mapboxwidth - 1) - x ELSE x
        fy == IF HasBit(rotate, ORIENTATION_FLIP_Y)
              THEN (mapboxheight - 1) - y ELSE y
    IN  IF HasBit(rotate, ORIENTATION_SWAP_XY)
        THEN [xpixel |-> fy, ypixel |-> fx]
        ELSE [xpixel |-> fx, ypixel |-> fy]

\* col and row of the tile under pixel x,y of the map box
tilemap_hover_tile(s, h, lay, x, y) ==
    LET map == tilemap_find(h, s.tilemap.which)
        pix == tilemap_hover_pixel(s.tilemap.rotate, lay.mapboxwidth,
                                   lay.mapboxheight, x, y)
    IN  [ col |-> CDiv(CDiv(pix.xpixel, lay.pixelscale) + s.tilemap.xoffs,
                       map.tilewidth) % CDiv(map.width, map.tilewidth),
          row |-> CDiv(CDiv(pix.ypixel, lay.pixelscale) + s.tilemap.yoffs,
                       map.tileheight) % CDiv(map.height, map.tileheight) ]

\* a hover that scrolls the map to the tile under the pointer
tilemap_hover_scroll(s, h, lay) ==
    IF hover_inside(h.mouse, lay.mapboxwidth, lay.mapboxheight)
    THEN LET map == tilemap_find(h, s.tilemap.which)
             tile == tilemap_hover_tile(s, h, lay, h.mouse.x, h.mouse.y)
         IN  [s EXCEPT !.fx.hover =
                 <<[ view |-> "tilemap",
                     x    |-> tile.col * map.tilewidth,
                     y    |-> tile.row * map.tileheight ]>>,
                 !.tilemap.xoffs = tile.col * map.tilewidth,
                 !.tilemap.yoffs = tile.row * map.tileheight]
    ELSE s

\* "if the mouse pointer is over a tile, add some info about its
\* coordinates and color": the title alone is written
tilemap_hover(s, h, lay) ==
    IF hover_inside(h.mouse, lay.mapboxwidth, lay.mapboxheight)
    THEN LET map == tilemap_find(h, s.tilemap.which)
             tile == tilemap_hover_tile(s, h, lay, h.mouse.x, h.mouse.y)
         IN  [s EXCEPT !.fx.hover =
                 <<[ view |-> "tilemap",
                     x    |-> tile.col * map.tilewidth,
                     y    |-> tile.row * map.tileheight ]>>]
    ELSE s

\* look under the pointer; update the bitmap; handle the keys
tilemap_show(s, h, keys, lay) ==
    tilemap_handle_keys(
        tilemap_update_bitmap(tilemap_hover(s, h, lay), h,
                              CDiv(lay.mapboxwidth, lay.pixelscale),
                              CDiv(lay.mapboxheight, lay.pixelscale)),
        h, keys)

tilemap_handler(s, h, keys) ==
    tilemap_show(s, h, keys, tilemap_view_layout(s, h))

\* sprintf(filename, "tilemap_%d_of_%d_size_%dx%d", ...): the size is
\* swapped under SWAP_XY
tilemap_filename(s, h, map) ==
    IF HasBit(s.tilemap.rotate, ORIENTATION_SWAP_XY)
    THEN <<"tilemap", map, tilemap_count(h) - 1,
           tilemap_find(h, map).height, tilemap_find(h, map).width>>
    ELSE <<"tilemap", map, tilemap_count(h) - 1,
           tilemap_find(h, map).width, tilemap_find(h, map).height>>

\* "save the file": the pixmap of one tilemap, "Saved tilemap"
tilemap_save_file(h, basename, pixmap) ==
    IF open_next_file(h, basename, "png")
    THEN <<Opened(basename, "png", TRUE)>>
         \o gfxset_save_snapshot(h, basename, pixmap.width, pixmap.height)
         \o <<Printed("Saved tilemap", basename)>>
    ELSE <<Opened(basename, "png", FALSE)>>

\* tilemap_handle_save: the loop over the tilemaps; it writes nothing to the
\* viewer state
RECURSIVE tilemap_save_maps(_, _, _)
tilemap_save_maps(s, h, map) ==
    IF map >= tilemap_count(h)
    THEN s
    ELSE tilemap_save_maps(
            export_log(s, tilemap_save_file(h, tilemap_filename(s, h, map),
                                            tilemap_find(h, map))),
            h, map + 1)

tilemap_handle_save(s, h) ==
    export_log(tilemap_save_maps(s, h, 0),
               <<Printed("Saving tilemaps finished", <<>>)>>)

----------------------------------------------------------------------------
(* ui_gfx_ui_handler - primary UI handler *)

\* what one call of the handler did, kept beside the state while it runs
FxInit ==
    [ view      |-> "none",    \* the view handler that ran
      viewmode  |-> NULL,      \* state.mode when it ran
      views     |-> 0,         \* how many view handlers ran
      batch     |-> "none",    \* the export batch that ran
      looks     |-> 0,         \* how many cases of the switch were examined
      wraps     |-> 0,         \* how many times "goto again" was taken
      pal0      |-> NULL,      \* state.palette on entry to palette_handle_keys
      realloc   |-> 0,         \* raster reallocations
      refill    |-> 0,         \* raster redraws (and texture uploads)
      want      |-> <<>>,      \* the raster dimensions asked for
      out       |-> <<>>,      \* the files opened and written and the lines
                               \* printed by an export batch, in order
      rasters   |-> <<>>,      \* the bitmaps a gfxset export batch built
      hover     |-> <<>>,      \* what the title says of the item under the
                               \* pointer, if it says anything
      keypass   |-> FALSE,     \* the handler's own key handling was reached
      cancel_resume |-> FALSE  \* the cancel path called resume()
    ]

WithFx(s) == s @@ [fx |-> FxInit]
WithoutFx(s) == [k \in DOMAIN s \ {"fx"} |-> s[k]]

\* an export that leaves state.save set
ui_gfx_export_sticky(s, h, view) ==
    IF s.save
    THEN [ (CASE view = "palette" -> palette_handle_save(s, h)
              [] view = "gfxset"  -> gfxset_handle_save(s, h)
              [] view = "tilemap" -> tilemap_handle_save(s, h))
           EXCEPT !.fx.batch = view ]
    ELSE s

\* if (state.save == true) { <view>_handle_save(); state.save = false; }
ui_gfx_export(s, h, view) ==
    IF s.save
    THEN [ (CASE view = "palette" -> palette_handle_save(s, h)
              [] view = "gfxset"  -> gfxset_handle_save(s, h)
              [] view = "tilemap" -> tilemap_handle_save(s, h))
           EXCEPT !.save = FALSE, !.fx.batch = view ]
    ELSE s

\* <view>_handler()
ui_gfx_view(s, h, keys, view) ==
    CASE view = "palette" -> palette_handler(s, h, keys)
      [] view = "gfxset"  -> gfxset_handler(s, h, keys)
      [] view = "tilemap" -> tilemap_handler(s, h, keys)

ui_gfx_note_view(s, view) ==
    [s EXCEPT !.fx.view = view, !.fx.viewmode = s.mode, !.fx.views = @ + 1]

\* one case of the switch that has something to display
ui_gfx_show(s, h, keys, view) ==
    ui_gfx_view(ui_gfx_note_view(ui_gfx_export(s, h, view), view), h, keys, view)

\* whether the case of this mode has something to display
ui_gfx_has(s, h, mode) ==
    CASE mode = UI_GFX_PALETTE -> s.palette.devcount > 0
      [] mode = UI_GFX_GFXSET  -> s.gfxset.devcount > 0
      [] mode = UI_GFX_TILEMAP -> tilemap_count(h) > 0
      [] OTHER -> FALSE

ui_gfx_view_of(mode) ==
    CASE mode = UI_GFX_PALETTE -> "palette"
      [] mode = UI_GFX_GFXSET  -> "gfxset"
      [] mode = UI_GFX_TILEMAP -> "tilemap"

\* state.mode++ and the fallthrough; from the last case,
\* state.mode = UI_GFX_PALETTE and goto again
ui_gfx_fallthrough(s) ==
    IF s.mode = UI_GFX_TILEMAP
    THEN [s EXCEPT !.mode = UI_GFX_PALETTE, !.fx.wraps = @ + 1]
    ELSE [s EXCEPT !.mode = uint8(@ + 1)]

\* a switch that never leaves the stored mode (no fallthrough, no goto again)
ui_gfx_seek_stay(s, h) ==
    [s EXCEPT !.fx.looks = @ + 1]

\* "switch off the state to display something": the cases examined until
\* one has something to display.  A fallthrough enters the next case, which
\* is the case of the incremented mode.
RECURSIVE ui_gfx_seek(_, _)
ui_gfx_seek(s, h) ==
    IF s.mode \notin {UI_GFX_PALETTE, UI_GFX_GFXSET, UI_GFX_TILEMAP}
       \/ ui_gfx_has(s, h, s.mode)
    THEN [s EXCEPT !.fx.looks = @ + 1]
    ELSE ui_gfx_seek(ui_gfx_fallthrough([s EXCEPT !.fx.looks = @ + 1]), h)

ui_gfx_found(s, h, keys) ==
    IF ui_gfx_has(s, h, s.mode)
    THEN ui_gfx_show(s, h, keys, ui_gfx_view_of(s.mode))
    ELSE s

ui_gfx_switch(s, h, keys) ==
    ui_gfx_found(ui_gfx_seek(s, h), h, keys)

\* if we're not paused, mark the bitmap dirty
ui_gfx_running_dirty(s, paused0) ==
    IF ~paused0 THEN [s EXCEPT !.bitmap_dirty = TRUE] ELSE s

\* a Select that steps two modes on
ui_gfx_select_twice(s) ==
    [s EXCEPT !.mode = (s.mode + 2) % 3, !.bitmap_dirty = TRUE]

\* IPT_UI_SELECT
ui_gfx_select(s) ==
    [s EXCEPT !.mode = (s.mode + 1) % 3, !.bitmap_dirty = TRUE]

ui_gfx_select_key(s, keys) ==
    [ (IF pressed(keys, "SELECT") THEN ui_gfx_select(s) ELSE s)
      EXCEPT !.fx.keypass = TRUE ]

\* IPT_UI_PAUSE
ui_gfx_pause_key(paused0, keys) ==
    IF pressed(keys, "PAUSE") THEN ~paused0 ELSE paused0

\* a cancel path that also returns the viewer to its first mode
ui_gfx_cancel_reset(s, paused0, uistate) ==
    [ state  |-> [s EXCEPT !.bitmap_dirty = TRUE, !.fx.cancel_resume = ~uistate,
                           !.mode = UI_GFX_PALETTE],
      paused |-> IF ~uistate THEN FALSE ELSE paused0,
      ret    |-> UI_HANDLER_CANCEL ]

\* the label cancel:
ui_gfx_cancel(s, paused0, uistate) ==
    [ state  |-> [s EXCEPT !.bitmap_dirty = TRUE, !.fx.cancel_resume = ~uistate],
      paused |-> IF ~uistate THEN FALSE ELSE paused0,
      ret    |-> UI_HANDLER_CANCEL ]

\* handle keys, on the state the view handler left
ui_gfx_keys(s, keys, uistate, paused0) ==
    IF pressed(keys, "CANCEL") \/ pressed(keys, "SHOW_GFX")
    THEN ui_gfx_cancel(ui_gfx_select_key(s, keys),
                       ui_gfx_pause_key(paused0, keys), uistate)
    ELSE [ state  |-> ui_gfx_select_key(s, keys),
           paused |-> ui_gfx_pause_key(paused0, keys),
           ret    |-> IF uistate THEN 1 ELSE 0 ]

\* a handler that, with nothing to show, skips the switch but still handles
\* the keys
ui_gfx_counted_keys(s, h, keys, uistate, paused0) ==
    ui_gfx_keys(
        IF ui_gfx_has_any(s, h)
        THEN ui_gfx_switch(ui_gfx_running_dirty(s, paused0), h, keys)
        ELSE s,
        keys, uistate, paused0)

\* the handler past ui_gfx_is_relevant, which has counted the devices
ui_gfx_counted(s, h, keys, uistate, paused0) ==
    IF ~ui_gfx_has_any(s, h)
    THEN ui_gfx_cancel(s, paused0, uistate)
    ELSE ui_gfx_keys(
             ui_gfx_switch(ui_gfx_running_dirty(s, paused0), h, keys),
             keys, uistate, paused0)

\* the handler: the state it leaves in ui_gfx, machine.paused() and the
\* value it returns
ui_gfx_ui_handler(s, h, keys, uistate, paused0) ==
    ui_gfx_counted(ui_gfx_is_relevant_state(s, h), h, keys, uistate, paused0)

----------------------------------------------------------------------------
(* Machines and keyboards the behaviours start from *)

Pal(e, i) == [entries |-> e, indirect |-> i]

Gfx(w, ht, n, c, pal) ==
    [ width |-> w, height |-> ht, elements |-> n, colors |-> c,
      granularity |-> 1, colorbase |-> 0, pal |-> pal ]

\* a tilemap of 1x1 tiles, and one of tiles of another size
Map(w, ht) == [width |-> w, height |-> ht, tilewidth |-> 1, tileheight |-> 1]

Tiled(map, tw, th) == [map EXCEPT !.tilewidth = tw, !.tileheight = th]

\* find_mouse: no pointer over a render target
NoMouse == [target |-> FALSE, x |-> 0, y |-> 0]

\* find_mouse and map_point_container: the pointer is over the ui target,
\* x,y target pixels right of and below the top left corner of the cell box
\* (or map box) of the view shown
Mouse(x, y) == [target |-> TRUE, x |-> x, y |-> y]

Machine(pals, gfx, maps, rotate, cbw, cbh, mbw, mbh) ==
    [ pals |-> pals, gfx |-> gfx, maps |-> maps, rotate |-> rotate,
      cellboxwidth |-> cbw, cellboxheight |-> cbh,
      mapboxwidth |-> mbw, mapboxheight |-> mbh,
      screen |-> TRUE,      \* screen_device_enumerator(...).first() is a screen
      failures |-> {{}},    \* what the file system may refuse, per frame
      fail |-> {},          \* what it refuses in this frame
      pointers |-> {NoMouse},  \* where the pointer may be, per frame
      mouse |-> NoMouse,       \* where it is in this frame
      widths |-> {cbw} ]       \* the widths the user may give the window,
                               \* as they leave the cell box, per frame

TopKeys == {"SELECT", "PAUSE", "CANCEL", "SHOW_GFX"}

PaletteKeys ==
    {"ZOOM_OUT", "ZOOM_IN", "PREV_GROUP", "NEXT_GROUP", "UP", "DOWN",
     "PAGE_UP", "PAGE_DOWN", "HOME", "END", "SNAPSHOT"}

GfxKeys == PaletteKeys \cup {"ROTATE", "LEFT", "RIGHT"}

TilemapKeys == (GfxKeys \cup {"LSHIFT", "LCONTROL"}) \ {"END"}

\* the sets of at most n keys of ks
RECURSIVE Chords(_, _)
Chords(ks, n) ==
    IF n = 0
    THEN {{}}
    ELSE LET c == Chords(ks, n - 1)
         IN  c \cup {x \cup {k} : x \in c, k \in ks}

\* every combination of present and absent resource kinds, each kind small
TinyPals == <<Pal(4, 2)>>
TinyGfx == << <<Gfx(1, 2, 3, 2, 0)>> >>
TinyMaps == <<Map(2, 1)>>

PresenceMachines ==
    { Machine(p, g, m, 0, 9, 9, 4, 4) :
        p \in {<<>>, TinyPals},
        g \in {<<>>, << <<>> >>, TinyGfx},
        m \in {<<>>, TinyMaps} }

\* machines whose gfx sets all carry a palette that exists: a set without
\* one makes ui_gfx_count_devices and gfxset_handle_save read through a
\* null palette pointer
WellFormed(h) ==
    \A i \in 1 .. Len(h.gfx) : \A j \in 1 .. Len(h.gfx[i]) :
        /\ h.gfx[i][j].pal >= 0
        /\ h.gfx[i][j].pal < Len(h.pals)
        /\ Len(h.gfx[i]) <= SetSlots

PresenceScenarios ==
    { [machine |-> h, keys |-> TopKeys \cup {"SNAPSHOT", "NEXT_GROUP"}] :
        h \in {x \in PresenceMachines : WellFormed(x)} }

\* palette devices only
PaletteMachines ==
    { Machine(p, <<>>, <<>>, 0, 9, 9, 4, 4) :
        p \in { <<Pal(20, 0)>>,
                <<Pal(0, 0)>>,
                <<Pal(70, 3), Pal(5, 0), Pal(40, 30)>> } }

\* one gfx device and two tilemaps over a ui target with room for the views
\* and over one without: the set is 1 x 3, so a cell is 2 x 4 source pixels
\* as decoded and 4 x 2 when rotated, and a cell box 3 pixels high has no
\* room for a row of the former
RasterPals == <<Pal(4, 0)>>
RasterGfx == << <<Gfx(1, 3, 3, 1, 0)>> >>
RasterMaps == <<Map(2, 1), Map(3, 2)>>

RasterMachines ==
    { Machine(RasterPals, RasterGfx, RasterMaps, 0, 9, 9, 4, 4),
      Machine(RasterPals, RasterGfx, RasterMaps, 0, 9, 3, 4, 0) }

RasterKeys == {"SELECT", "PAUSE", "ROTATE", "NEXT_GROUP"}

RasterScenarios ==
    { [machine |-> h, keys |-> RasterKeys] : h \in RasterMachines }

\* tilemaps only: a 3 x 2 map and a smaller 2 x 1 one, on a machine as it is
\* and on one flipped in X, which between them reach all eight rotation codes
PanMaps == <<Map(3, 2), Map(2, 1)>>

PanMachines ==
    { [Machine(<<>>, <<>>, PanMaps, rotate, 9, 9, 4, 4)
          EXCEPT !.pointers = {NoMouse, Mouse(1, 0)}] :
        rotate \in {0, ORIENTATION_FLIP_X} }

PanKeys ==
    {"UP", "DOWN", "LEFT", "RIGHT", "LSHIFT", "LCONTROL", "ROTATE",
     "NEXT_GROUP"}

PanScenarios ==
    { [machine |-> h, keys |-> PanKeys] : h \in PanMachines }

\* one tilemap, the category keys and Pause
CategoryScenarios ==
    { [machine |-> Machine(<<>>, <<>>, <<Map(2, 1)>>, 0, 9, 9, 4, 4),
       keys |-> {"PAGE_UP", "PAGE_DOWN", "PAUSE"}] }

\* a machine with two palette devices (the second with indirect colours),
\* one gfx device of two sets and two tilemaps
ExportPals == <<Pal(3, 0), Pal(4, 2)>>
ExportGfx == << <<Gfx(1, 2, 3, 2, 0), Gfx(2, 1, 2, 1, 1)>> >>
ExportMaps == <<Map(2, 1), Map(3, 2)>>

\* the names of the files of the three batches on that machine
ExportNames ==
    { <<"palette", 0, "", 3>>, <<"palette", 1, "pens ", 4>>,
      <<"palette", 0, "", 0>>, <<"palette", 1, "colors ", 2>>,
      <<"gfxset", 0, 1, 2, 2, 0>>, <<"gfxset", 0, 1, 2, 2, 1>>,
      <<"gfxset", 1, 2, 1, 1, 0>>,
      <<"tilemap", 0, 1, 2, 1>>, <<"tilemap", 1, 1, 3, 2>> }

\* what the file system may refuse: to open a text file, to open a png, or
\* to take the data of a png
ExportRefusals ==
    { <<n, "txt", "open">> : n \in {x \in ExportNames : x[1] = "palette"} }
    \cup { <<n, "png", k>> : n \in ExportNames, k \in {"open", "write"} }

\* per frame it refuses nothing, one thing, or to open the first file of a
\* batch and to take the data of another file of that batch
ExportFailures ==
    {{}} \cup { {a} : a \in ExportRefusals }
    \cup { f \in { {a, b} : a \in ExportRefusals, b \in ExportRefusals } :
             \E a \in f, b \in f :
                 /\ a[3] = "open" /\ a[1][2] = 0
                 /\ b[3] = "write"
                 /\ b[1][1] = a[1][1] /\ b[1] # a[1] }

ExportScenarios ==
    { [machine |-> [Machine(ExportPals, ExportGfx, ExportMaps, 0, 9, 9, 4, 4)
                        EXCEPT !.failures = ExportFailures],
       keys |-> {"SNAPSHOT", "SELECT"}] }

\* two gfx devices over a narrow cell box: the first has one set, the second
\* a set of 33 elements (more than the 12 cells of its grid, and more than
\* one row of 32) and a set of 33 colours (more than 32)
GfxExportPals == <<Pal(4, 0)>>
GfxExportGfx ==
    << <<Gfx(1, 2, 3, 2, 0)>>, <<Gfx(2, 1, 33, 1, 0), Gfx(1, 1, 2, 33, 0)>> >>

GfxExportScenarios ==
    { [machine |-> Machine(GfxExportPals, GfxExportGfx, <<>>, 0, 9, 9, 4, 4),
       keys |-> {"SELECT", "SNAPSHOT", "NEXT_GROUP", "DOWN"}] }

\* two gfx devices whose sets have 3, 1 and 2 colours
ColorPals == <<Pal(4, 0)>>
ColorGfx == << <<Gfx(1, 2, 3, 3, 0), Gfx(2, 1, 2, 1, 0)>>, <<Gfx(1, 1, 2, 2, 0)>> >>

ColorScenarios ==
    { [machine |-> Machine(ColorPals, ColorGfx, <<>>, 0, 9, 9, 4, 4),
       keys |-> {"SELECT", "SNAPSHOT", "NEXT_GROUP", "PREV_GROUP",
                 "LEFT", "RIGHT"}] }

\* a cell box too narrow for two columns of either set of a device, and one
\* wide enough for 130 columns of a set
ColumnPals == <<Pal(4, 0)>>
ColumnGfxNarrow == << <<Gfx(1, 2, 3, 1, 0), Gfx(2, 1, 2, 1, 0)>> >>
ColumnGfxWide == << <<Gfx(1, 1, 2, 1, 0)>> >>

ColumnScenarios ==
    { [machine |-> Machine(ColumnPals, ColumnGfxNarrow, <<>>, 0, 3, 9, 4, 4),
       keys |-> {"SELECT", "NEXT_GROUP", "PREV_GROUP", "ZOOM_IN", "ZOOM_OUT"}],
      [machine |-> Machine(ColumnPals, ColumnGfxWide, <<>>, 0, 260, 9, 4, 4),
       keys |-> {"SELECT", "ZOOM_IN", "ZOOM_OUT"}] }

\* a gfx device of two sets in a window the user makes narrow (no room for
\* two columns) and wide
ResizeGfx == << <<Gfx(1, 2, 3, 1, 0), Gfx(2, 1, 2, 1, 0)>> >>

ResizeScenarios ==
    { [machine |-> [Machine(ColumnPals, ResizeGfx, <<>>, 0, 3, 9, 4, 4)
                        EXCEPT !.widths = {3, 9}],
       keys |-> {"SELECT", "NEXT_GROUP", "PREV_GROUP", "SNAPSHOT"}] }

\* two gfx sets with cells of one size, each with at least a screen of
\* elements (the cell box shows one row of two cells), and a tilemap; the
\* machine starts running or paused
PausedPals == <<Pal(4, 0)>>
PausedGfx == << <<Gfx(1, 1, 2, 2, 0), Gfx(1, 1, 4, 1, 0)>> >>
PausedMaps == <<Map(2, 2)>>

\* the same machine with a screen device and without one
PausedMachines ==
    { [Machine(PausedPals, PausedGfx, PausedMaps, 0, 4, 3, 4, 4)
          EXCEPT !.screen = screen] : screen \in BOOLEAN }

PausedScenarios ==
    { [machine |-> h, keys |-> {"SELECT", "SNAPSHOT", "RIGHT", "NEXT_GROUP"}] :
        h \in PausedMachines }

\* a palette of 20 entries and a gfx set of 5 elements shown two to a screen,
\* so that the last screen of either has cells past the end; the pointer is
\* away, or over the first or the second cell
ReadPals == <<Pal(20, 0)>>
ReadGfx == << <<Gfx(1, 1, 5, 1, 0)>> >>

ReadScenarios ==
    { [machine |-> [Machine(ReadPals, ReadGfx, <<>>, 0, 4, 3, 4, 4)
                        EXCEPT !.pointers = {NoMouse, Mouse(0, 0), Mouse(2, 0)}],
       keys |-> {"SELECT", "SNAPSHOT", "DOWN", "UP", "ZOOM_OUT"}] }

\* a machine with all three kinds of resource that is started again between
\* frames
RestartScenarios ==
    { [machine |-> Machine(ReadPals, ReadGfx, PausedMaps, 0, 4, 3, 4, 4),
       keys |-> {"SELECT", "SNAPSHOT", "DOWN", "ZOOM_OUT"}] }

\* a palette of 20 entries and a gfx set of 11 elements, more than a screen
\* of either view; the cell box holds two rows of cells, or (too low for
\* one cell) none
EndPals == <<Pal(20, 0)>>
EndGfx == << <<Gfx(1, 1, 11, 1, 0)>> >>

EndScenarios ==
    { [machine |-> Machine(EndPals, EndGfx, <<>>, 0, 9, cbh, 4, 4),
       keys |-> {"SELECT", "END", "HOME", "DOWN", "ZOOM_OUT"}] :
        cbh \in {4, 1} }

\* two palette devices, one of them with indirect colours, in either order,
\* and a gfx set drawn with the colours of that one: a set of one colour, a
\* set of no colour (gfx.colors() == 0), and a set of one colour followed by
\* a set of none
SelectionGfx ==
    { <<Gfx(1, 1, 2, 1, 1)>>,
      <<Gfx(1, 1, 2, 0, 1)>>,
      <<Gfx(1, 1, 2, 1, 1), Gfx(1, 1, 2, 0, 1)>> }

SelectionMachines ==
    { Machine(<<Pal(3, 0), Pal(4, 2)>>, <<sets>>, <<>>, 0, 9, 9, 4, 4) :
        sets \in SelectionGfx }
    \cup { Machine(<<Pal(4, 2), Pal(3, 0)>>, << <<Gfx(1, 1, 2, 1, 0)>> >>,
                   <<>>, 0, 9, 9, 4, 4) }

SelectionScenarios ==
    { [machine |-> h,
       keys |-> {"SELECT", "SNAPSHOT", "NEXT_GROUP", "PREV_GROUP"}] :
        h \in SelectionMachines }

\* two palette devices, one of them with indirect colours, in either order,
\* and a third machine where both have them
SubsetPals ==
    { <<Pal(3, 0), Pal(4, 2)>>, <<Pal(4, 2), Pal(3, 0)>>,
      <<Pal(3, 1), Pal(4, 2)>> }

SubsetScenarios ==
    { [machine |-> Machine(pals, <<>>, <<>>, 0, 9, 9, 4, 4),
       keys |-> {"SNAPSHOT", "NEXT_GROUP", "PREV_GROUP"}] :
        pals \in SubsetPals }

\* a machine with one palette, one gfx set and one tilemap of 2x1 tiles,
\* larger than its box; the pointer is nowhere, over the box of the view
\* shown, or beside it
HoverPals == <<Pal(5, 0)>>
HoverGfx == << <<Gfx(2, 1, 3, 2, 0)>> >>
HoverMaps == <<Tiled(Map(4, 3), 2, 1)>>

HoverPointers ==
    {NoMouse, Mouse(1, 0), Mouse(2, 1), Mouse(1, 2), Mouse(0 - 1, 0),
     Mouse(9, 9)}

HoverScenarios ==
    { [machine |-> [Machine(HoverPals, HoverGfx, HoverMaps, 0, 8, 8, 4, 4)
                        EXCEPT !.pointers = HoverPointers],
       keys |-> {"SELECT", "ROTATE", "DOWN"}] }

\* a gfx set of three 2x1 elements, on a machine whose screen is upright and
\* on one whose screen is mirrored, shown at one or two target pixels per
\* source pixel; the pointer is nowhere, or over a pixel of the first cells:
\* over a pixel of an element, over a gap, or over a cell past the last
\* element
PixelGfx == << <<Gfx(2, 1, 3, 1, 0)>> >>

PixelPointers ==
    {NoMouse} \cup { Mouse(x, y) : x \in 0 .. 3, y \in 0 .. 5 }

PixelScenarios ==
    { [machine |-> [Machine(HoverPals, PixelGfx, <<>>, r, 8, 8, 4, 4)
                        EXCEPT !.pointers = PixelPointers],
       keys |-> {"SELECT", "ROTATE"}] : r \in {0, ORIENTATION_FLIP_X} }

PaletteScenarios ==
    { [machine |-> h, keys |-> PaletteKeys \cup {"SELECT", "CANCEL"}] :
        h \in PaletteMachines }

\* the record of the handler's last call; before is ui_gfx as the call found it
\* the pixels of one cell, for every rotation code and source size
DrawItemInputs ==
    { [op |-> "pixel", rotate |-> r, gfx |-> Gfx(w, ht, 1, 1, 0), x |-> x, y |-> y] :
        r \in 0 .. 7, w \in 1 .. MaxCell, ht \in 1 .. MaxCell,
        x \in 0 .. (MaxCell - 1), y \in 0 .. (MaxCell - 1) }

\* the cells asked of both rasterizers: the rotation code, the size of the
\* element, the colour; every pixel of the element has its own pen and every
\* palette entry its own colour (rowbytes is the width of the element)
CellInputs ==
    { [op |-> "cell", rotate |-> r, gfx |-> Gfx(w, ht, 1, 2, 0), color |-> c,
       src |-> [i \in 0 .. (w * ht - 1) |-> i],
       raw |-> [i \in 0 .. (w * ht) |-> 16777216 + 65536 * i + 256 * (i + 1) + 7]] :
        r \in 0 .. 7, w \in 1 .. MaxCell, ht \in 1 .. MaxCell, c \in 0 .. 1 }

\* for (y = 0; y < height; y++) for (x = 0; x < width; x++)
DrawItemLoop(p) ==
    /\ p.x < gfxset_item_width(p.rotate, p.gfx)
    /\ p.y < gfxset_item_height(p.rotate, p.gfx)

\* the layouts asked for: box width, stored columns, source pixels per cell
\* a 400 pixel wide box, 16 stored columns, cells of 33 source pixels
LayoutFixture ==
    [op |-> "layout", cellboxwidth |-> 400, columns |-> 16, cellxpix |-> 33]

LayoutInputs ==
    { [op |-> "layout", cellboxwidth |-> w, columns |-> c, cellxpix |-> s] :
        w \in 0 .. MaxBox, c \in 1 .. MaxColumns, s \in 1 .. (MaxCell + 1) }
    \cup {LayoutFixture}

\* the tilemap views asked for: the map, the rotation code, the zoom and the
\* pixels the ui target leaves for the map box
ScaleInputs ==
    { [op |-> "scale", map |-> Map(w, ht), rotate |-> r, zoom |-> z,
       mapboxwidth |-> bw, mapboxheight |-> bh] :
        w \in 1 .. MaxMap, ht \in 1 .. MaxMap, r \in {0, ROT90}, z \in {0, 2},
        bw \in 0 .. MaxMapBox, bh \in 0 .. MaxMapBox }

\* the palettes whose image is asked for: the entries of the subset and the
\* columns, which the zoom keys keep at 4, 8, 16, 32 or 64
ImageInputs ==
    { [op |-> "image", iface |-> 0, which |-> w, total |-> n, columns |-> c] :
        w \in {0, 1}, n \in 0 .. MaxTotal, c \in {4, 8, 16, 32, 64} }

LastInit ==
    [ called  |-> FALSE,
      keys    |-> {},
      uistate |-> FALSE,
      before  |-> NULL,
      paused0 |-> FALSE,
      ret     |-> 0,
      fx      |-> FxInit ]

InputIdle ==
    [ phase |-> "idle", keys |-> {}, uistate |-> FALSE, fail |-> {},
      mouse |-> NoMouse, width |-> 0 ]

ProbeIdle == [op |-> "none"]

InitOf(scenarios) ==
    /\ \E sc \in scenarios :
        /\ host = sc.machine
        /\ keyboard = sc.keys
        /\ ui_gfx = ui_gfx_init(ui_gfx_static, sc.machine)
    /\ paused \in BOOLEAN
    /\ input = InputIdle
    /\ last = LastInit
    /\ probe = ProbeIdle

----------------------------------------------------------------------------
(* Actions: the host's frame loop around the viewer *)

\* the input system latches the keys of this frame; the host decides uistate
\* and the file system decides which files it will refuse; the pointer is
\* where the user left it, and the window as wide as the user made it
Poll ==
    /\ input.phase = "idle"
    /\ \E keys \in Chords(keyboard, MaxKeys), uistate \in BOOLEAN,
          fail \in host.failures, mouse \in host.pointers,
          width \in host.widths :
        input' = [phase |-> "polled", keys |-> keys, uistate |-> uistate,
                  fail |-> fail, mouse |-> mouse, width |-> width]
    /\ UNCHANGED <<host, keyboard, ui_gfx, paused, last, probe>>

\* the host calls ui_gfx_ui_handler for this frame
Frame ==
    /\ input.phase = "polled"
    /\ \E r \in {ui_gfx_ui_handler(WithFx(ui_gfx),
                                   [host EXCEPT !.fail = input.fail,
                                                !.mouse = input.mouse,
                                                !.cellboxwidth = input.width],
                                   input.keys, input.uistate, paused)} :
        /\ ui_gfx' = WithoutFx(r.state)
        /\ paused' = r.paused
        /\ last' = [ called  |-> TRUE,
                     keys    |-> input.keys,
                     uistate |-> input.uistate,
                     before  |-> ui_gfx,
                     paused0 |-> paused,
                     ret     |-> r.ret,
                     fx      |-> r.state.fx ]
    /\ input' = [input EXCEPT !.phase = "done"]
    /\ UNCHANGED <<host, keyboard, probe>>

\* the frame is presented; the next one starts from the viewer state alone
Present ==
    /\ input.phase = "done"
    /\ input' = InputIdle
    /\ last' = LastInit
    /\ UNCHANGED <<host, keyboard, ui_gfx, paused, probe>>

\* between frames the host asks ui_gfx_is_relevant (to decide whether to
\* offer the viewer)
Relevant ==
    /\ input.phase = "idle"
    /\ ui_gfx' = ui_gfx_is_relevant_state(ui_gfx, host)
    /\ probe' = [op |-> "is_relevant", ret |-> ui_gfx_is_relevant(ui_gfx, host)]
    /\ UNCHANGED <<host, keyboard, paused, input, last>>

Next == Poll \/ Frame \/ Present \/ Relevant

\* between frames the machine exits and one is started in the same process:
\* ui_gfx_init runs on the static ui_gfx as the machine before left it
Restart ==
    /\ input.phase = "idle"
    /\ ui_gfx' = ui_gfx_init(ui_gfx, host)
    /\ paused' = FALSE
    /\ probe' = [op |-> "init"]
    /\ UNCHANGED <<host, keyboard, input, last>>

NextRestart == Next \/ Restart

Init == InitOf(PresenceScenarios)
Spec == Init /\ [][Next]_vars

InitRaster == InitOf(RasterScenarios)
SpecRaster == InitRaster /\ [][Next]_vars

InitTilemap == InitOf(PanScenarios)
SpecTilemap == InitTilemap /\ [][Next]_vars

InitCategory == InitOf(CategoryScenarios)
SpecCategory == InitCategory /\ [][Next]_vars

InitExport == InitOf(ExportScenarios)
SpecExport == InitExport /\ [][Next]_vars

InitGfxExport == InitOf(GfxExportScenarios)
SpecGfxExport == InitGfxExport /\ [][Next]_vars

InitColor == InitOf(ColorScenarios)
SpecColor == InitColor /\ [][Next]_vars

InitResize == InitOf(ResizeScenarios)
SpecResize == InitResize /\ [][Next]_vars

InitSelection == InitOf(SelectionScenarios)
SpecSelection == InitSelection /\ [][Next]_vars

InitPaused == InitOf(PausedScenarios)
SpecPaused == InitPaused /\ [][Next]_vars

InitRead == InitOf(ReadScenarios)
SpecRead == InitRead /\ [][Next]_vars

InitRestart == InitOf(RestartScenarios)
SpecRestart == InitRestart /\ [][NextRestart]_vars

InitEnd == InitOf(EndScenarios)
SpecEnd == InitEnd /\ [][Next]_vars

InitSubset == InitOf(SubsetScenarios)
SpecSubset == InitSubset /\ [][Next]_vars

InitPixel == InitOf(PixelScenarios)
SpecPixel == InitPixel /\ [][Next]_vars

InitHover == InitOf(HoverScenarios)
SpecHover == InitHover /\ [][Next]_vars

InitColumn == InitOf(ColumnScenarios)
SpecColumn == InitColumn /\ [][Next]_vars

InitPalette == InitOf(PaletteScenarios)
SpecPalette == InitPalette /\ [][Next]_vars

\* gfxset_draw_item, one pixel of the cell at a time
InitProbe(inputs) ==
    /\ host = Machine(TinyPals, TinyGfx, <<>>, 0, 9, 9, 4, 4)
    /\ keyboard = {}
    /\ ui_gfx = ui_gfx_init(ui_gfx_static, host)
    /\ paused = FALSE
    /\ input = InputIdle
    /\ last = LastInit
    /\ probe \in inputs

DrawPixel ==
    /\ probe.op = "pixel"
    /\ probe' = [ op |-> "drawn", rotate |-> probe.rotate, gfx |-> probe.gfx,
                  x |-> probe.x, y |-> probe.y,
                  eff |-> gfxset_effective(probe.rotate, probe.gfx, probe.x, probe.y) ]
    /\ UNCHANGED <<host, keyboard, ui_gfx, paused, input, last>>

\* one cell drawn by gfxset_draw_item into the view and by
\* gfxset_draw_save_item into the export bitmap
DrawCell ==
    /\ probe.op = "cell"
    /\ probe' = [ op |-> "cells", rotate |-> probe.rotate, gfx |-> probe.gfx,
                  color |-> probe.color, raw |-> probe.raw,
                  live |-> gfxset_draw_item(probe.gfx, probe.src, probe.gfx.width,
                                            probe.raw, probe.color, probe.rotate),
                  save |-> gfxset_draw_save_item(probe.gfx, probe.src,
                                                 probe.gfx.width, probe.raw,
                                                 probe.color, probe.rotate) ]
    /\ UNCHANGED <<host, keyboard, ui_gfx, paused, input, last>>

InitDrawCell == InitProbe(CellInputs)
SpecDrawCell == InitDrawCell /\ [][DrawCell]_vars

InitDrawItem == InitProbe({p \in DrawItemInputs : DrawItemLoop(p)})
SpecDrawItem == InitDrawItem /\ [][DrawPixel]_vars

\* gfxset_handler, "compute the largest pixel scale factor that still fits"
Layout ==
    /\ probe.op = "layout"
    /\ probe' = [ op |-> "laid out", cellboxwidth |-> probe.cellboxwidth,
                  columns |-> probe.columns, cellxpix |-> probe.cellxpix,
                  lay |-> gfxset_layout(probe.cellboxwidth, probe.columns,
                                        probe.cellxpix) ]
    /\ UNCHANGED <<host, keyboard, ui_gfx, paused, input, last>>

\* tilemap_handler, "determine the maximum integral scaling factor" and
\* "recompute the final box size", for one tilemap in one map box
Scale ==
    /\ probe.op = "scale"
    /\ probe' =
         [ op |-> "scaled", map |-> probe.map, rotate |-> probe.rotate,
           zoom |-> probe.zoom, mapboxwidth |-> probe.mapboxwidth,
           mapboxheight |-> probe.mapboxheight,
           lay |-> tilemap_view_layout(
                      [ui_gfx EXCEPT !.tilemap.rotate = probe.rotate,
                                     !.tilemap.zoom = probe.zoom],
                      [host EXCEPT !.maps = <<probe.map>>,
                                   !.mapboxwidth = probe.mapboxwidth,
                                   !.mapboxheight = probe.mapboxheight]) ]
    /\ UNCHANGED <<host, keyboard, ui_gfx, paused, input, last>>

InitScale == InitProbe(ScaleInputs)
SpecScale == InitScale /\ [][Scale]_vars

\* palette_handle_save, "allocate new image" and "now loop through the
\* palette colors", for one palette
Image ==
    /\ probe.op = "image"
    /\ probe' =
         [ op |-> "imaged", iface |-> probe.iface, which |-> probe.which,
           total |-> probe.total, columns |-> probe.columns,
           img |-> palette_save_image(probe.iface, probe.which, probe.total,
                                      probe.columns) ]
    /\ UNCHANGED <<host, keyboard, ui_gfx, paused, input, last>>

InitImage == InitProbe(ImageInputs)
SpecImage == InitImage /\ [][Image]_vars

InitLayout == InitProbe(LayoutInputs)
SpecLayout == InitLayout /\ [][Layout]_vars

----------------------------------------------------------------------------
(* Properties of the top-level handler, under Spec *)

\* the handler has returned and its record is in last
Done == input.phase = "done"

\* the resource count the switch tests for a mode
ResourceCount(mode) ==
    CASE mode = UI_GFX_PALETTE -> ui_gfx.palette.devcount
      [] mode = UI_GFX_GFXSET  -> ui_gfx.gfxset.devcount
      [] mode = UI_GFX_TILEMAP -> Len(host.maps)

NothingPresent == \A mode \in 0 .. 2 : ResourceCount(mode) = 0

\* the first mode with a nonzero count, searching cyclically from mode m
FirstPresentFrom(m) ==
    LET k == CHOOSE k \in 0 .. 2 :
                /\ ResourceCount((m + k) % 3) > 0
                /\ \A j \in 0 .. (k - 1) : ResourceCount((m + j) % 3) = 0
    IN  (m + k) % 3

ViewOfMode(mode) ==
    CASE mode = UI_GFX_PALETTE -> "palette"
      [] mode = UI_GFX_GFXSET  -> "gfxset"
      [] mode = UI_GFX_TILEMAP -> "tilemap"

\* C1: in every call of ui_gfx_ui_handler with at least one resource kind
\* present, exactly one view handler runs; it is the handler of the first
\* mode with a nonzero count found cyclically from the stored mode; the
\* stored mode is that mode when the handler runs (and on return, unless
\* Select moved it on); the search takes "goto again" at most once and
\* examines at most three cases.
C1_OneViewPerFrame ==
    (Done /\ ~NothingPresent) =>
        /\ last.fx.views = 1
        /\ last.fx.viewmode = FirstPresentFrom(last.before.mode)
        /\ last.fx.view = ViewOfMode(last.fx.viewmode)
        /\ last.fx.wraps <= 1
        /\ last.fx.looks <= 3
        /\ ("SELECT" \notin last.keys => ui_gfx.mode = last.fx.viewmode)

\* a frame whose stored mode was empty, found its view after wrapping round
C1_Witness ==
    /\ Done
    /\ last.fx.views = 1
    /\ last.fx.wraps = 1
    /\ last.fx.viewmode # last.before.mode
    /\ ResourceCount(last.before.mode) = 0

\* C2: with no palette device, no gfx device and no tilemap,
\* ui_gfx_is_relevant returns false and ui_gfx_ui_handler returns
\* UI_HANDLER_CANCEL without running a view handler, an export batch or any
\* key handling: Select, Pause and Snapshot have no effect.
C2_NothingToShow ==
    /\ (probe.op = "is_relevant" /\ NothingPresent) => ~probe.ret
    /\ (Done /\ NothingPresent) =>
        /\ last.ret = UI_HANDLER_CANCEL
        /\ last.fx.views = 0
        /\ last.fx.view = "none"
        /\ last.fx.batch = "none"
        /\ ~last.fx.keypass
        /\ ui_gfx.mode = last.before.mode
        /\ ui_gfx.save = last.before.save
        /\ paused = (IF last.uistate THEN last.paused0 ELSE FALSE)

\* the handler was called on a machine with nothing to show, keys pressed
C2_Witness ==
    /\ Done
    /\ NothingPresent
    /\ probe.op = "is_relevant"
    /\ {"SELECT", "PAUSE"} \subseteq last.keys
    /\ last.paused0
    /\ last.uistate
    /\ last.ret = UI_HANDLER_CANCEL

\* C3: Select in a frame sets mode to (m+1) mod 3, m the mode displayed in
\* that frame, whether or not the new mode has resources, and leaves the
\* raster dirty; mode is Palette, GfxSet or Tilemap in every state.
C3_SelectAdvances ==
    /\ ui_gfx.mode \in {UI_GFX_PALETTE, UI_GFX_GFXSET, UI_GFX_TILEMAP}
    /\ (Done /\ "SELECT" \in last.keys /\ last.fx.views = 1) =>
        /\ ui_gfx.mode = (last.fx.viewmode + 1) % 3
        /\ ui_gfx.bitmap_dirty

\* Select moved the viewer into a mode that has no resources
C3_Witness ==
    /\ Done
    /\ last.keys = {"SELECT"}
    /\ last.fx.views = 1
    /\ ResourceCount(ui_gfx.mode) = 0
    /\ ui_gfx.mode = (last.fx.viewmode + 1) % 3

\* what the same call leaves without the Cancel and toggle keys
WithoutCancel ==
    ui_gfx_ui_handler(WithFx(last.before), host,
                      last.keys \ {"CANCEL", "SHOW_GFX"},
                      last.uistate, last.paused0)

\* C4: when Cancel or the toggle key is pressed the handler returns
\* UI_HANDLER_CANCEL with the raster dirty, and resumes the host exactly when
\* uistate is false; the cancel path itself changes neither mode nor any
\* navigation state: the viewer state is the one the same frame leaves
\* without these keys, but for the dirty flag.
C4_CancelLeaves ==
    (Done /\ last.keys \cap {"CANCEL", "SHOW_GFX"} # {}) =>
        /\ last.ret = UI_HANDLER_CANCEL
        /\ ui_gfx.bitmap_dirty
        /\ last.fx.cancel_resume = ~last.uistate
        /\ ~last.uistate => ~paused
        /\ last.uistate => paused = WithoutCancel.paused
        /\ ui_gfx = [WithoutFx(WithoutCancel.state) EXCEPT !.bitmap_dirty = TRUE]

\* Cancel in a displayed view of a paused host the overlay had paused
C4_Witness ==
    /\ Done
    /\ last.keys = {"CANCEL"}
    /\ last.fx.views = 1
    /\ ~last.uistate
    /\ last.paused0
    /\ ~paused
    /\ last.ret = UI_HANDLER_CANCEL

----------------------------------------------------------------------------
(* Properties of the palette key pass, under SpecPalette *)

\* the palette view ran in the frame just finished
PaletteRan == Done /\ last.fx.view = "palette"

PaletteTotal == palette_total(ui_gfx.palette, host)

\* ceil(total/columns)*columns - columns^2
C5_Bound(total, columns) ==
    ((total + columns - 1) \div columns) * columns - columns * columns

\* C5 as stated: scrollOffset is always within
\* [0, ceil(total/columns)*columns - columns^2].
C5_OffsetInStatedRange ==
    PaletteRan =>
        /\ ui_gfx.palette.offset >= 0
        /\ ui_gfx.palette.offset <= C5_Bound(PaletteTotal, ui_gfx.palette.columns)

\* C5: once the devices are counted, and after every palette key pass,
\* scrollOffset is within [0, max(0, ceil(total/columns)*columns -
\* columns^2)], total and columns being those of the subset and zoom the
\* pass ended on.
C5_OffsetInRange ==
    (ui_gfx.started /\ ui_gfx.palette.devcount > 0) =>
        /\ ui_gfx.palette.offset >= 0
        /\ ui_gfx.palette.offset
              <= Max(0, C5_Bound(PaletteTotal, ui_gfx.palette.columns))

\* End took the view to a positive upper end of the range
C5_Witness ==
    /\ PaletteRan
    /\ "END" \in last.keys
    /\ C5_Bound(PaletteTotal, ui_gfx.palette.columns) > 0
    /\ ui_gfx.palette.offset = C5_Bound(PaletteTotal, ui_gfx.palette.columns)
    /\ last.fx.pal0.offset < ui_gfx.palette.offset

\* C6: palette columns is within [4,64] in every state; a palette key pass
\* with ZoomIn doubles it and with ZoomOut halves it, saturating at 64 and
\* 4, and a pass with a zoom key leaves scrollOffset at most
\* ceil(total/columns)*columns - columns^2, or 0.
C6_ColumnsInRange ==
    /\ ui_gfx.palette.columns \in 4 .. 64
    /\ PaletteRan =>
        LET c0   == last.fx.pal0.columns
            c    == ui_gfx.palette.columns
            zin  == "ZOOM_IN" \in last.keys
            zout == "ZOOM_OUT" \in last.keys
        IN  /\ (zin /\ ~zout) => c = Min(64, 2 * c0)
            /\ (zout /\ ~zin) => c = Max(4, c0 \div 2)
            /\ (zin = zout) => c = c0
            /\ (zin \/ zout) =>
                \/ ui_gfx.palette.offset <= C5_Bound(PaletteTotal, c)
                \/ ui_gfx.palette.offset = 0

\* ZoomIn at 64 columns stays at 64
C6_Witness ==
    /\ PaletteRan
    /\ last.keys = {"ZOOM_IN"}
    /\ last.fx.pal0.columns = 64
    /\ ui_gfx.palette.columns = 64

\* the subset a device offers when Indirect is preferred
C7_IndirectIfPresent ==
    IF indirect_entries(host, ui_gfx.palette.interface) > 0 THEN 1 ELSE 0

\* C7 as stated: a bracket key that crosses into a new device selects, going
\* forward, Indirect if the device has indirect entries and Direct
\* otherwise, and going backward, Direct.
C7_SubsetAsStated ==
    PaletteRan =>
        /\ ui_gfx.palette.devindex > last.fx.pal0.devindex =>
                ui_gfx.palette.which = C7_IndirectIfPresent
        /\ ui_gfx.palette.devindex < last.fx.pal0.devindex =>
                ui_gfx.palette.which = 0

\* C7: a bracket key that crosses into a new device selects, going forward
\* (NextGroup), Direct, and going backward (PrevGroup), Indirect if the
\* device has indirect entries and Direct otherwise; the key pass ends on
\* the device it crossed into.
C7_SubsetOnCrossing ==
    PaletteRan =>
        /\ ui_gfx.palette.devindex > last.fx.pal0.devindex =>
                /\ "NEXT_GROUP" \in last.keys
                /\ ui_gfx.palette.devindex = last.fx.pal0.devindex + 1
                /\ ui_gfx.palette.which = 0
        /\ ui_gfx.palette.devindex < last.fx.pal0.devindex =>
                /\ "PREV_GROUP" \in last.keys
                /\ ui_gfx.palette.devindex = last.fx.pal0.devindex - 1
                /\ ui_gfx.palette.which = C7_IndirectIfPresent
        /\ ui_gfx.palette.interface = byindex(host, ui_gfx.palette.devindex)

\* PrevGroup crossed into a device with indirect entries and shows them
C7_Witness ==
    /\ PaletteRan
    /\ last.keys = {"PREV_GROUP"}
    /\ ui_gfx.palette.devindex < last.fx.pal0.devindex
    /\ indirect_entries(host, ui_gfx.palette.interface) > 0
    /\ ui_gfx.palette.which = 1

----------------------------------------------------------------------------
(* Properties of the orientation transform, under SpecDrawItem *)

Drawn == probe.op = "drawn"

\* the pixels of the displayed cell of a set under a rotation code
CellPixels(rotate, gfx) ==
    (0 .. (gfxset_item_width(rotate, gfx) - 1))
        \X (0 .. (gfxset_item_height(rotate, gfx) - 1))

\* the transform applied, with the same code, to the coordinate it produced
AppliedTwice(p) ==
    gfxset_effective(p.rotate, p.gfx, p.eff.effx, p.eff.effy)

RoundTrip(p) ==
    /\ AppliedTwice(p).effx = p.x
    /\ AppliedTwice(p).effy = p.y

\* the set as the displayed cell shows it: width and height exchanged
\* under SWAP_XY
Displayed(rotate, gfx) ==
    [gfx EXCEPT !.width = gfxset_item_width(rotate, gfx),
                !.height = gfxset_item_height(rotate, gfx)]

\* the code that undoes a code: under SWAP_XY the two flips change places
InverseCode(rotate) ==
    IF HasBit(rotate, ORIENTATION_SWAP_XY)
    THEN orientation_swap_flips(rotate)
    ELSE rotate

\* the transform of the inverse code on the displayed cell, applied to the
\* coordinate the transform produced
AppliedBack(p) ==
    gfxset_effective(InverseCode(p.rotate), Displayed(p.rotate, p.gfx),
                     p.eff.effx, p.eff.effy)

\* C8 as stated: for each of the 8 codes and non-square cells, applying the
\* transform with the same code to the coordinate it produced returns the
\* original coordinate.
C8_SelfInverseAsStated ==
    (Drawn /\ probe.gfx.width # probe.gfx.height) => RoundTrip(probe)

\* C8: the transform is its own inverse for the codes without SWAP_XY and
\* for SWAP_XY alone; for SWAP_XY with both flips it is so exactly on square
\* cells; for SWAP_XY with one flip (the quarter turns) applying it twice is
\* the half turn, which returns only the centre pixel of a square cell.
\* For every code the transform of the code with the flips exchanged, taken
\* on the displayed cell, returns the original coordinate.
C8_SelfInverse ==
    Drawn =>
        LET r  == probe.rotate
            gw == probe.gfx.width
            gh == probe.gfx.height
        IN  /\ r \in {0, 1, 2, 3, 4} => RoundTrip(probe)
            /\ r = 7 => (RoundTrip(probe) <=> gw = gh)
            /\ r = 5 => (RoundTrip(probe) <=> (2 * probe.x = gh - 1 /\ 2 * probe.y = gh - 1))
            /\ r = 6 => (RoundTrip(probe) <=> (2 * probe.x = gw - 1 /\ 2 * probe.y = gw - 1))
            /\ AppliedBack(probe).effx = probe.x
            /\ AppliedBack(probe).effy = probe.y

\* a quarter turn of a non-square cell: the same code does not lead back,
\* the code with the flips exchanged does
C8_Witness ==
    /\ Drawn
    /\ probe.rotate = ROT90
    /\ probe.gfx.width # probe.gfx.height
    /\ ~RoundTrip(probe)
    /\ AppliedBack(probe) = [effx |-> probe.x, effy |-> probe.y]

\* C9: for every code and source size W x H the transform maps the
\* displayed cell one-to-one onto [0,W) x [0,H): without SWAP_XY flip-x gives
\* W-1-x and flip-y gives H-1-y; with it flip-x gives H-1-x, flip-y gives
\* W-1-y and the axes are exchanged last; no source read is out of range.
C9_OneToOneOnto ==
    Drawn =>
        LET r  == probe.rotate
            gw == probe.gfx.width
            gh == probe.gfx.height
            fx == IF HasBit(r, ORIENTATION_FLIP_X) THEN TRUE ELSE FALSE
            fy == IF HasBit(r, ORIENTATION_FLIP_Y) THEN TRUE ELSE FALSE
            image == { gfxset_effective(r, probe.gfx, c[1], c[2]) :
                          c \in CellPixels(r, probe.gfx) }
        IN  /\ probe.eff.effx \in 0 .. (gw - 1)
            /\ probe.eff.effy \in 0 .. (gh - 1)
            /\ ~HasBit(r, ORIENTATION_SWAP_XY) =>
                /\ probe.eff.effx = (IF fx THEN gw - 1 - probe.x ELSE probe.x)
                /\ probe.eff.effy = (IF fy THEN gh - 1 - probe.y ELSE probe.y)
            /\ HasBit(r, ORIENTATION_SWAP_XY) =>
                /\ probe.eff.effy = (IF fx THEN gh - 1 - probe.x ELSE probe.x)
                /\ probe.eff.effx = (IF fy THEN gw - 1 - probe.y ELSE probe.y)
            /\ \A c \in CellPixels(r, probe.gfx) :
                gfxset_effective(r, probe.gfx, c[1], c[2]) = probe.eff
                    => c = <<probe.x, probe.y>>
            /\ image = [effx : 0 .. (gw - 1), effy : 0 .. (gh - 1)]

\* the last column of a swapped, flipped, non-square cell reads source row 0
C9_Witness ==
    /\ Drawn
    /\ probe.rotate = ORIENTATION_SWAP_XY + ORIENTATION_FLIP_X
    /\ probe.gfx.width < probe.gfx.height
    /\ probe.x = probe.gfx.height - 1
    /\ probe.x >= probe.gfx.width
    /\ probe.eff.effy = 0

----------------------------------------------------------------------------
(* Properties of the gfx layout, under SpecLayout *)

LaidOut == probe.op = "laid out"

\* C10 as stated: for every width W, column count C and cell pixel width S,
\* finalColumns <= C, pixelScale >= 1 and finalColumns * pixelScale * S <= W.
C10_FitsAsStated ==
    LaidOut =>
        /\ probe.lay.xcells <= probe.columns
        /\ probe.lay.pixelscale >= 1
        /\ probe.lay.xcells * probe.lay.pixelscale * probe.cellxpix
              <= probe.cellboxwidth

\* C10: for every W, C >= 1 and S, 1 <= finalColumns <= C and pixelScale >=
\* 1; finalColumns * pixelScale * S <= W exactly when W >= S; when W < S the
\* layout is one column at scale 1, wider than the space.
C10_Fits ==
    LaidOut =>
        /\ probe.lay.xcells >= 1
        /\ probe.lay.xcells <= probe.columns
        /\ probe.lay.pixelscale >= 1
        /\ (probe.lay.xcells * probe.lay.pixelscale * probe.cellxpix
                <= probe.cellboxwidth)
              <=> (probe.cellboxwidth >= probe.cellxpix)
        /\ probe.cellboxwidth < probe.cellxpix =>
              (probe.lay.xcells = 1 /\ probe.lay.pixelscale = 1)

\* the loop gave up columns and stopped at a layout that fits
C10_Witness ==
    /\ LaidOut
    /\ probe.lay.xcells > 1
    /\ probe.lay.xcells < probe.columns
    /\ probe.lay.pixelscale >= 1
    /\ probe.lay.xcells * probe.lay.pixelscale * probe.cellxpix
          <= probe.cellboxwidth

\* the layout of the fixture has been computed
FixtureLaidOut ==
    /\ LaidOut
    /\ probe.cellboxwidth = LayoutFixture.cellboxwidth
    /\ probe.columns = LayoutFixture.columns
    /\ probe.cellxpix = LayoutFixture.cellxpix

\* C11 as stated: with W = 400, C = 16 and S = 33 the layout yields
\* finalColumns = 8 and pixelScale = 1.
C11_FixtureAsStated ==
    FixtureLaidOut =>
        (probe.lay.xcells = 8 /\ probe.lay.pixelscale = 1)

\* C11: with W = 400, C = 16 and S = 33 the layout yields finalColumns = 12
\* and pixelScale = 1: the loop gives up one column at a time, 16 to 13
\* columns leave less than 33 pixels per cell, and 12 columns leave 33.
C11_Fixture ==
    FixtureLaidOut =>
        /\ probe.lay.xcells = 12
        /\ probe.lay.pixelscale = 1
        /\ \A c \in 13 .. 16 : CDiv(CDiv(probe.cellboxwidth, c), probe.cellxpix) = 0
        /\ CDiv(CDiv(probe.cellboxwidth, 12), probe.cellxpix) = 1

\* the fixture went through the loop and lost columns
C11_Witness ==
    /\ FixtureLaidOut
    /\ probe.lay.xcells < probe.columns
    /\ probe.lay.xcells * probe.lay.pixelscale * probe.cellxpix
          <= probe.cellboxwidth

----------------------------------------------------------------------------
(* Properties of the raster cache, under SpecRaster *)

\* a view that keeps a raster ran in the call just made
RasterRan == Done /\ last.fx.view \in {"gfxset", "tilemap"}

\* the dimensions of the buffer the call found
BufferBefore == <<last.before.bitmap.width, last.before.bitmap.height>>

\* what the next call does to the raster when no key is pressed
NextQuiet ==
    ui_gfx_ui_handler(WithFx(ui_gfx), host, {}, last.uistate, paused).state.fx

\* C12 as stated: the raster cache is reallocated if and only if the
\* requested dimensions differ from the dimensions of the current buffer,
\* and the second of two consecutive ensure steps with identical dimensions
\* never reallocates (and so never forces dirty), in the gfxset and in the
\* tilemap refresh path.
C12_ReallocIffDiffer ==
    RasterRan =>
        /\ (last.fx.realloc > 0) <=> (last.fx.want # BufferBefore)
        /\ NextQuiet.want = last.fx.want => NextQuiet.realloc = 0

\* what the code does: it reallocates exactly when the buffer is not valid,
\* there is no texture, or the dimensions differ, and once per call at most
C12_ReallocWhen ==
    RasterRan =>
        /\ last.fx.realloc <= 1
        /\ (last.fx.realloc = 1) <=>
              bitmap_mismatch(last.before, last.fx.want[1], last.fx.want[2])
        /\ (last.fx.realloc = 1) =>
              (ui_gfx.texture # NULL /\ last.fx.refill = 1)

\* for a raster that is not empty the statement of C12 holds
C12_NotEmpty ==
    (RasterRan /\ last.fx.want[1] > 0 /\ last.fx.want[2] > 0) =>
        /\ (last.fx.realloc > 0) <=> (last.fx.want # BufferBefore)
        /\ NextQuiet.want = last.fx.want => NextQuiet.realloc = 0

\* an empty raster was asked for twice in a row and reallocated both times
C12_Witness ==
    /\ RasterRan
    /\ last.fx.realloc = 1
    /\ NextQuiet.want = last.fx.want
    /\ NextQuiet.view = last.fx.view
    /\ NextQuiet.realloc = 1
    /\ last.keys = {}

\* the same, in the tilemap refresh path
C12_WitnessTilemap ==
    C12_Witness /\ last.fx.view = "tilemap"

\* the same, in the gfxset refresh path
C12_WitnessGfxset ==
    C12_Witness /\ last.fx.view = "gfxset"

\* C13 as stated: over consecutive frames in GfxSet or Tilemap mode with no
\* key input and unchanged raster dimensions, the frames after the first
\* neither refill nor re-upload the raster.
C13_QuietFramesAsStated ==
    (RasterRan /\ last.keys = {} /\ NextQuiet.want = last.fx.want) =>
        NextQuiet.refill = 0

\* C13 for a paused machine only: over consecutive frames with no key
\* input, the machine paused and the raster not reallocated, the frames after
\* the first neither refill nor re-upload the raster.
C13_QuietPausedFrames ==
    (RasterRan /\ last.keys = {} /\ paused /\ NextQuiet.realloc = 0) =>
        NextQuiet.refill = 0

\* what the code does: the raster is refilled and re-uploaded exactly on a
\* dirty refresh, once per frame at most; the refresh is dirty when the
\* machine is not paused, when the frame before left the raster dirty or when
\* the raster was reallocated
C13_RefillWhenDirty ==
    RasterRan =>
        /\ last.fx.refill <= 1
        /\ (last.fx.refill = 1) <=>
              \/ ~last.paused0
              \/ last.before.bitmap_dirty
              \/ last.fx.realloc = 1
        /\ (last.keys = {} /\ ~paused) => NextQuiet.refill = 1

\* a gfx set with fewer elements than the grid has cells: in a quiet frame of
\* a paused machine the raster kept its dimensions and was refilled, the
\* clamp of the offset left it dirty again, and the next frame refills it too
C13_Witness ==
    /\ RasterRan
    /\ last.fx.view = "gfxset"
    /\ last.keys = {}
    /\ last.paused0
    /\ paused
    /\ last.fx.want = BufferBefore
    /\ last.fx.realloc = 0
    /\ last.fx.refill = 1
    /\ ui_gfx.bitmap_dirty
    /\ NextQuiet.realloc = 0
    /\ NextQuiet.refill = 1

\* a quiet frame of a paused machine showed the tilemap raster of the frame
\* before without refilling it
C13_WitnessClean ==
    /\ RasterRan
    /\ last.keys = {}
    /\ last.paused0
    /\ last.before.bitmap.valid
    /\ last.fx.want = BufferBefore
    /\ last.fx.refill = 0
    /\ NextQuiet.refill = 0

----------------------------------------------------------------------------
(* Properties of the tilemap key pass, under SpecTilemap *)

\* the tilemap view ran in the call just made
TilemapRan == Done /\ last.fx.view = "tilemap"

\* the tilemap the key pass of the call just made worked on
MapNow == tilemap_find(host, ui_gfx.tilemap.which)

\* n key passes of tilemap_handle_keys with the same keys held
RECURSIVE PanTimes(_, _, _)
PanTimes(s, keys, n) ==
    IF n = 0
    THEN s
    ELSE CHOOSE r \in { PanTimes(x, keys, n - 1) :
                            x \in {tilemap_handle_keys(s, host, keys)} } : TRUE

\* the offsets after n passes of `there` and then n passes of `back`
PanThereAndBack(there, back, held, n) ==
    PanTimes(PanTimes(WithFx(ui_gfx), held \cup {there}, n),
             held \cup {back}, n).tilemap

PanModifiers == {{}, {"LSHIFT"}, {"LCONTROL"}}

\* C14: from any offsets the viewer can hold, under any rotation code and
\* with any step size held constant, Down n times then Up n times, and Right
\* n times then Left n times, on the same tilemap return xOffset and yOffset
\* to their original values (which are equal, not only congruent modulo the
\* map dimensions, because the offsets are kept in range).
C14_PanRoundTrip ==
    (input.phase = "idle" /\ ui_gfx.started) =>
        \A n \in 1 .. MaxPan, held \in PanModifiers,
           pair \in {<<"DOWN", "UP">>, <<"RIGHT", "LEFT">>} :
            LET t == PanThereAndBack(pair[1], pair[2], held, n)
            IN  /\ t.which = ui_gfx.tilemap.which
                /\ (t.xoffs - ui_gfx.tilemap.xoffs) % MapNow.width = 0
                /\ (t.yoffs - ui_gfx.tilemap.yoffs) % MapNow.height = 0
                /\ t.xoffs = ui_gfx.tilemap.xoffs
                /\ t.yoffs = ui_gfx.tilemap.yoffs

\* Up was pressed on a rotated view after a Down that had wrapped around the
\* edge of the map: the offsets are those from which Down led to the
\* offsets this call started from
C14_Witness ==
    /\ TilemapRan
    /\ last.keys = {"UP"}
    /\ HasBit(ui_gfx.tilemap.rotate, ORIENTATION_SWAP_XY)
    /\ ui_gfx.tilemap.xoffs # last.before.tilemap.xoffs
    /\ tilemap_handle_keys(WithFx(ui_gfx), host, {"DOWN"}).tilemap
          = last.before.tilemap
    /\ PanThereAndBack("DOWN", "UP", {}, 1) = ui_gfx.tilemap

\* the step of a pan: 8, 1 with LSHIFT held, 64 with LCONTROL held
PanStep(keys) ==
    IF "LCONTROL" \in keys THEN 64 ELSE IF "LSHIFT" \in keys THEN 1 ELSE 8

\* exactly one of the four arrow keys is among the keys
OneArrow(keys) ==
    Cardinality(keys \cap {"UP", "DOWN", "LEFT", "RIGHT"}) = 1

\* C15: after every tilemap key pass 0 <= xOffset < map width and 0 <=
\* yOffset < map height of the currently selected tilemap, also right after
\* switching to a smaller tilemap; a pass with one arrow key and step s moves
\* one offset to (old + s) mod dimension or (old - s) mod dimension of the
\* selected map and leaves the other one where it was (wrapped into the
\* map): offsets wrap and are never clamped at an edge.
C15_OffsetsWrap ==
    TilemapRan =>
        /\ ui_gfx.tilemap.xoffs >= 0
        /\ ui_gfx.tilemap.xoffs < MapNow.width
        /\ ui_gfx.tilemap.yoffs >= 0
        /\ ui_gfx.tilemap.yoffs < MapNow.height
        /\ (OneArrow(last.keys) /\ "HOME" \notin last.keys) =>
              \E d \in {PanStep(last.keys), -PanStep(last.keys)} :
                \/ /\ ui_gfx.tilemap.xoffs
                        = (last.before.tilemap.xoffs + d) % MapNow.width
                   /\ ui_gfx.tilemap.yoffs
                        = last.before.tilemap.yoffs % MapNow.height
                \/ /\ ui_gfx.tilemap.yoffs
                        = (last.before.tilemap.yoffs + d) % MapNow.height
                   /\ ui_gfx.tilemap.xoffs
                        = last.before.tilemap.xoffs % MapNow.width
        /\ (last.keys \cap {"UP", "DOWN", "LEFT", "RIGHT", "HOME"} = {}) =>
              /\ ui_gfx.tilemap.xoffs
                    = last.before.tilemap.xoffs % MapNow.width
              /\ ui_gfx.tilemap.yoffs
                    = last.before.tilemap.yoffs % MapNow.height

\* the view switched to the smaller tilemap with offsets that lie outside
\* it, and a pan in the same pass wrapped around its edge
C15_Witness ==
    /\ TilemapRan
    /\ last.keys = {"NEXT_GROUP", "RIGHT"}
    /\ ui_gfx.tilemap.which = last.before.tilemap.which + 1
    /\ last.before.tilemap.xoffs >= MapNow.width
    /\ last.before.tilemap.yoffs >= MapNow.height
    /\ ui_gfx.tilemap.xoffs < last.before.tilemap.xoffs
    /\ ui_gfx.tilemap.xoffs = (last.before.tilemap.xoffs + 8) % MapNow.width

----------------------------------------------------------------------------
(* Properties of the tilemap pixel scale, under SpecScale *)

Scaled == probe.op = "scaled"

\* the map dimensions after the axis swap
ScaledWidth ==
    IF HasBit(probe.rotate, ORIENTATION_SWAP_XY)
    THEN probe.map.height ELSE probe.map.width

ScaledHeight ==
    IF HasBit(probe.rotate, ORIENTATION_SWAP_XY)
    THEN probe.map.width ELSE probe.map.height

\* scale s fits the box, the edge included
FitsBox(s) ==
    s * ScaledWidth <= probe.mapboxwidth /\ s * ScaledHeight <= probe.mapboxheight

\* scale s fits the box with room to spare in both axes
FitsInside(s) ==
    s * ScaledWidth < probe.mapboxwidth /\ s * ScaledHeight < probe.mapboxheight

\* C16 as stated: with zoom == 0 the pixel scale is the largest integer s >=
\* 1 with s * mapWidth <= boxWidth and s * mapHeight <= boxHeight (map
\* dimensions after the axis swap), and 1 when not even scale 1 fits.
C16_LargestThatFits ==
    (Scaled /\ probe.zoom = 0) =>
        /\ probe.lay.pixelscale >= 1
        /\ FitsBox(1) =>
              (FitsBox(probe.lay.pixelscale) /\ ~FitsBox(probe.lay.pixelscale + 1))
        /\ ~FitsBox(1) => probe.lay.pixelscale = 1

\* C16: with zoom == 0 the pixel scale is the largest integer s >= 1 with
\* s * mapWidth < boxWidth and s * mapHeight < boxHeight (map dimensions
\* after the axis swap), and 1 when there is no such s; a scale at which the
\* map fills the box exactly in one axis is not taken.
C16_LargestInside ==
    (Scaled /\ probe.zoom = 0) =>
        /\ probe.lay.pixelscale >= 1
        /\ FitsInside(1) =>
              (FitsInside(probe.lay.pixelscale)
                  /\ ~FitsInside(probe.lay.pixelscale + 1))
        /\ ~FitsInside(1) => probe.lay.pixelscale = 1

\* a rotated map that would fill the box exactly at the next scale
C16_Witness ==
    /\ Scaled
    /\ probe.zoom = 0
    /\ HasBit(probe.rotate, ORIENTATION_SWAP_XY)
    /\ probe.map.width # probe.map.height
    /\ probe.lay.pixelscale >= 2
    /\ FitsBox(probe.lay.pixelscale + 1)
    /\ ~FitsInside(probe.lay.pixelscale + 1)

----------------------------------------------------------------------------
(* Properties of the tilemap category filter, under SpecCategory *)

\* which of the two category keys the call just made saw
CategoryKeys == last.keys \cap {"PAGE_UP", "PAGE_DOWN"}

\* C17: the tilemap category filter is always either the "all categories"
\* sentinel or an integer in [0, CATEGORY_MASK]; PageDown maps sentinel -> 0
\* and n -> n + 1 for n < CATEGORY_MASK and leaves CATEGORY_MASK unchanged;
\* PageUp maps n -> n - 1 for n > 0, 0 -> sentinel, and leaves the sentinel
\* unchanged; every change marks the raster dirty.
C17_CategoryFilter ==
    /\ \/ ui_gfx.tilemap.flags = TILEMAP_DRAW_ALL_CATEGORIES
       \/ ui_gfx.tilemap.flags \in 0 .. TILEMAP_DRAW_CATEGORY_MASK
    /\ TilemapRan =>
          LET old == last.before.tilemap.flags
              new == ui_gfx.tilemap.flags
          IN  /\ CategoryKeys = {"PAGE_DOWN"} =>
                    new = (IF old = TILEMAP_DRAW_ALL_CATEGORIES THEN 0
                           ELSE IF old < TILEMAP_DRAW_CATEGORY_MASK THEN old + 1
                           ELSE old)
              /\ CategoryKeys = {"PAGE_UP"} =>
                    new = (IF old = TILEMAP_DRAW_ALL_CATEGORIES THEN old
                           ELSE IF old > 0 THEN old - 1
                           ELSE TILEMAP_DRAW_ALL_CATEGORIES)
              /\ CategoryKeys = {} => new = old
              /\ new # old => ui_gfx.bitmap_dirty
              /\ (new = old /\ last.keys \subseteq {"PAGE_UP", "PAGE_DOWN"}
                    /\ CategoryKeys # {"PAGE_UP", "PAGE_DOWN"}) =>
                    ~ui_gfx.bitmap_dirty

\* Page Down at the last category of a paused machine: the filter stays at
\* CATEGORY_MASK and the raster stays clean
C17_Witness ==
    /\ TilemapRan
    /\ last.keys = {"PAGE_DOWN"}
    /\ last.paused0
    /\ last.before.tilemap.flags = TILEMAP_DRAW_CATEGORY_MASK
    /\ ui_gfx.tilemap.flags = TILEMAP_DRAW_CATEGORY_MASK
    /\ ~ui_gfx.bitmap_dirty

\* Page Up at category 0 of a paused machine: back to the sentinel, dirty
C17_WitnessSentinel ==
    /\ TilemapRan
    /\ last.keys = {"PAGE_UP"}
    /\ last.paused0
    /\ last.before.tilemap.flags = 0
    /\ ui_gfx.tilemap.flags = TILEMAP_DRAW_ALL_CATEGORIES
    /\ ui_gfx.bitmap_dirty

----------------------------------------------------------------------------
(* Properties of the palette export raster, under SpecImage *)

Imaged == probe.op = "imaged"

\* ceil(total / columns): the least number of rows that hold total cells
ImageRows ==
    CHOOSE r \in 0 .. probe.total :
        /\ r * probe.columns >= probe.total
        /\ \A q \in 0 .. (r - 1) : q * probe.columns < probe.total

\* the pixel (px, py) of cell i, cells counted row by row
CellPixel(i, px, py) ==
    probe.img.dest[ (CDiv(i, probe.columns) * 8 + py) * probe.img.width
                    + (i % probe.columns) * 8 + px ]

\* C18: for a palette with total entries and the current columns the export
\* raster is (columns * 8) x (ceil(total / columns) * 8) pixels, every pixel
\* of cell i (row-major, 8 x 8 pixels) holds the color of entry i for i <
\* total, and every pixel of a cell with index >= total is 0 (transparent);
\* total = 20 and columns = 16 give a 128 x 16 raster whose cells 20..31 are
\* transparent.
C18_PaletteRaster ==
    Imaged =>
        /\ probe.img.width = probe.columns * 8
        /\ probe.img.height = ImageRows * 8
        /\ DOMAIN probe.img.dest
              = 0 .. (probe.img.width * probe.img.height - 1)
        /\ \A i \in 0 .. (probe.columns * ImageRows - 1) :
              \A px \in 0 .. 7, py \in 0 .. 7 :
                CellPixel(i, px, py)
                    = IF i < probe.total
                      THEN palette_pen(probe.iface, probe.which, i)
                      ELSE 0
        /\ (probe.total = 20 /\ probe.columns = 16) =>
              /\ probe.img.width = 128
              /\ probe.img.height = 16
              /\ \A i \in 20 .. 31 : \A px \in 0 .. 7, py \in 0 .. 7 :
                    CellPixel(i, px, py) = 0

\* the image of 20 entries in 16 columns: entry 19 is the last cell drawn
\* and cell 31 is transparent
C18_Witness ==
    /\ Imaged
    /\ probe.total = 20
    /\ probe.columns = 16
    /\ probe.img.width = 128
    /\ probe.img.height = 16
    /\ CellPixel(19, 7, 7) = palette_pen(probe.iface, probe.which, 19)
    /\ CellPixel(19, 7, 7) # 0
    /\ CellPixel(20, 0, 0) = 0
    /\ CellPixel(31, 7, 7) = 0


----------------------------------------------------------------------------
(* Export batches and the file system *)

\* the call just made ran an export batch
Exported == Done /\ last.fx.batch # "none"

\* the file an instance of the batch opens first
FirstExt == IF last.fx.batch = "palette" THEN "txt" ELSE "png"

\* the text printed after an instance is saved
SavedText ==
    CASE last.fx.batch = "palette" -> "Saved palette"
      [] last.fx.batch = "gfxset"  -> "Saved gfxset"
      [] last.fx.batch = "tilemap" -> "Saved tilemap"
      [] OTHER -> "none"

IsAttempt(e) == e.ev = "open" /\ e.ext = FirstExt

\* the instances a log attempts, in order
RECURSIVE Attempts(_)
Attempts(out) ==
    IF out = <<>>
    THEN <<>>
    ELSE (IF IsAttempt(Head(out)) THEN <<Head(out).file>> ELSE <<>>)
         \o Attempts(Tail(out))

\* the log of the same call on a file system that refuses nothing
OutUnrefused ==
    ui_gfx_ui_handler(WithFx(last.before), [host EXCEPT !.fail = {}],
                      last.keys, last.uistate, last.paused0).state.fx.out

\* the instances of the batch that ran, from the names of the machine's files
BatchNames == {n \in ExportNames : n[1] = last.fx.batch}

\* C19: in each export batch a failure to open the output file of one
\* instance does not abort the batch: the batch attempts the same instances,
\* in the same order, as on a file system that refuses nothing (all the
\* instances of the batch), and every instance whose own file opens is
\* written (its data follow its open) unless the write itself is refused.
C19_BatchContinues ==
    Exported =>
        /\ Attempts(last.fx.out) = Attempts(OutUnrefused)
        /\ {Attempts(last.fx.out)[i] : i \in 1 .. Len(Attempts(last.fx.out))}
               = BatchNames
        /\ Len(Attempts(last.fx.out)) = Cardinality(BatchNames)
        /\ \A i \in 1 .. Len(last.fx.out) :
              LET e == last.fx.out[i]
              IN  (IsAttempt(e) /\ e.ok
                   /\ <<e.file, e.ext, "write">> \notin input.fail)
                  => /\ i < Len(last.fx.out)
                     /\ last.fx.out[i + 1].ev = "write"
                     /\ last.fx.out[i + 1].file = e.file
                     /\ last.fx.out[i + 1].ext = e.ext

\* a batch of `batch` in which the first file of an instance did not open and
\* a later instance was written
ContinuedPast(batch) ==
    /\ Exported
    /\ last.fx.batch = batch
    /\ \E i \in 1 .. Len(last.fx.out), j \in 1 .. Len(last.fx.out) :
          /\ i < j
          /\ IsAttempt(last.fx.out[i]) /\ ~last.fx.out[i].ok
          /\ last.fx.out[j].ev = "write"
          /\ last.fx.out[j].ext = FirstExt
          /\ last.fx.out[j].file # last.fx.out[i].file

C19_Witness == ContinuedPast("palette")
C19_WitnessGfxset == ContinuedPast("gfxset")
C19_WitnessTilemap == ContinuedPast("tilemap")

\* what the log holds about one instance
Lines(file) ==
    {i \in 1 .. Len(last.fx.out) : last.fx.out[i].file = file}

\* the instance failed: one of its files did not open, or the data of its
\* png were refused
FailedToOpen(file) ==
    \E i \in Lines(file) : last.fx.out[i].ev = "open" /\ ~last.fx.out[i].ok

FailedToWrite(file) ==
    /\ <<file, "png", "write">> \in input.fail
    /\ \E i \in Lines(file) :
          /\ last.fx.out[i].ev = "open" /\ last.fx.out[i].ext = "png"
          /\ last.fx.out[i].ok

\* a line about the instance that is not "Saved ..."
Reported(file) ==
    \E i \in Lines(file) :
        last.fx.out[i].ev = "print" /\ last.fx.out[i].ext # SavedText

\* nothing is written for it and it is not reported as saved
Skipped(file) ==
    \A i \in Lines(file) :
        /\ last.fx.out[i].ev # "write"
        /\ ~(last.fx.out[i].ev = "print" /\ last.fx.out[i].ext = SavedText)

\* C20 as stated: when opening or writing an output file fails for one
\* export instance, the failure is reported through the diagnostic channel
\* for that instance, and the instance is skipped: nothing is written for it
\* and it is not reported as saved.
C20_FailureReportedAndSkipped ==
    Exported =>
        \A file \in BatchNames :
            (FailedToOpen(file) \/ FailedToWrite(file))
            => (Reported(file) /\ Skipped(file))

\* C20, what the code does when the first file of an instance does not
\* open: the instance is skipped, and nothing at all is printed about it.
C20_OpenFailureSilent ==
    Exported =>
        \A file \in BatchNames :
            (\E i \in Lines(file) :
                IsAttempt(last.fx.out[i]) /\ ~last.fx.out[i].ok)
            => /\ Skipped(file)
               /\ ~Reported(file)
               /\ Cardinality(Lines(file)) = 1

\* C20, what the code does when the data of a png are refused: the error is
\* printed, no png is written, and the instance is still reported as saved.
C20_WriteFailureSaved ==
    Exported =>
        \A file \in BatchNames :
            FailedToWrite(file)
            => /\ Reported(file)
               /\ \A i \in Lines(file) :
                     ~(last.fx.out[i].ev = "write" /\ last.fx.out[i].ext = "png")
               /\ \E i \in Lines(file) :
                     last.fx.out[i].ev = "print" /\ last.fx.out[i].ext = SavedText

\* C20, what the code does when the text file of a palette opens and its png
\* does not: the text file is written and the palette is reported as saved.
C20_PngOpenFailureSaved ==
    (Exported /\ last.fx.batch = "palette") =>
        \A file \in BatchNames :
            (\E i \in Lines(file) :
                /\ last.fx.out[i].ev = "open" /\ last.fx.out[i].ext = "png"
                /\ ~last.fx.out[i].ok)
            => /\ ~Reported(file)
               /\ \E i \in Lines(file) :
                     last.fx.out[i].ev = "write" /\ last.fx.out[i].ext = "txt"
               /\ \E i \in Lines(file) :
                     last.fx.out[i].ev = "print" /\ last.fx.out[i].ext = SavedText

\* a gfxset instance whose png did not open, with no line printed about it
C20_Witness ==
    /\ Exported
    /\ last.fx.batch = "gfxset"
    /\ \E file \in BatchNames : FailedToOpen(file) /\ ~Reported(file)

\* an instance whose data were refused and that is reported as saved
C20_WitnessWrite ==
    /\ Exported
    /\ \E file \in BatchNames : FailedToWrite(file) /\ ~Skipped(file)

\* a palette whose png did not open and that is reported as saved
C20_WitnessPng ==
    /\ Exported
    /\ last.fx.batch = "palette"
    /\ \E file \in BatchNames :
          /\ FailedToOpen(file) /\ ~Skipped(file)


----------------------------------------------------------------------------
(* The gfxset export batch *)

GfxExported == Exported /\ last.fx.batch = "gfxset"

\* the names of the files a log attempts
AttemptedNames ==
    {Attempts(last.fx.out)[i] : i \in 1 .. Len(Attempts(last.fx.out))}

\* the files of the sets of one enumerated gfx device: one per colour index
\* below min(colors, 32)
DeviceNames(dev) ==
    UNION { { gfxset_filename(
                  gfx_of(host, ui_gfx.gfxdev[dev].interface, set), set, color) :
                color \in 0 .. (Min(gfx_of(host, ui_gfx.gfxdev[dev].interface,
                                           set).colors, 32) - 1) } :
            set \in 0 .. (ui_gfx.gfxdev[dev].setcount - 1) }

\* C21 as stated: a gfxset export batch attempts one file for every set of
\* every enumerated graphics device and every colour index
\* 0 .. min(colors, 32) - 1, whichever device and set are selected.
C21_EveryDeviceExported ==
    GfxExported =>
        AttemptedNames =
            UNION {DeviceNames(dev) : dev \in 0 .. (ui_gfx.gfxset.devcount - 1)}

\* C21, what the code does: the batch attempts exactly the files of the sets
\* of the device selected when it starts, each once, colours capped at 32.
C21_SelectedDeviceExported ==
    GfxExported =>
        /\ AttemptedNames = DeviceNames(last.before.gfxset.devindex)
        /\ Len(Attempts(last.fx.out))
               = Cardinality(DeviceNames(last.before.gfxset.devindex))

\* a batch started on the first device: no file of the second device's sets
C21_Witness ==
    /\ GfxExported
    /\ ui_gfx.gfxset.devcount = 2
    /\ last.before.gfxset.devindex = 0
    /\ AttemptedNames \cap DeviceNames(1) = {}
    /\ DeviceNames(1) # {}

\* a batch started on the second device: 1 + 32 files, none of the first
C21_WitnessCapped ==
    /\ GfxExported
    /\ last.before.gfxset.devindex = 1
    /\ Len(Attempts(last.fx.out)) = 33
    /\ AttemptedNames \cap DeviceNames(0) = {}


\* the set a raster of the batch was built from, and its scroll offset in
\* the live view when the batch started
RasterGfxOf(r) == gfx_of(host, last.before.gfxdev[r.dev].interface, r.set)
RasterOffset(r) == last.before.gfxdev[r.dev].offset[r.set]

RasterSized(r) ==
    /\ r.xcells = 32
    /\ r.ycells = CDiv(RasterGfxOf(r).elements + 31, 32)
    /\ DOMAIN r.cells = 0 .. (r.xcells * r.ycells - 1)

\* C22 as stated: every exported gfxset raster is 32 cells wide and
\* ceil(elements / 32) cells high, element i is at cell i (column i mod 32,
\* row i div 32) for every i below elements, and the cells from elements on
\* are transparent, whatever the scroll offset of the live view.
C22_AllElementsExported ==
    GfxExported =>
        \A k \in 1 .. Len(last.fx.rasters) :
            LET r == last.fx.rasters[k]
            IN  /\ RasterSized(r)
                /\ \A c \in DOMAIN r.cells :
                      r.cells[c] = IF c < RasterGfxOf(r).elements
                                   THEN c ELSE TRANSPARENT

\* C22, what the code does: the raster has the stated size, and cell c holds
\* element offset + c, where offset is the scroll offset of the live view
\* for that set; the elements below offset are in no cell.
C22_RasterFromOffset ==
    GfxExported =>
        \A k \in 1 .. Len(last.fx.rasters) :
            LET r == last.fx.rasters[k]
            IN  /\ RasterSized(r)
                /\ \A c \in DOMAIN r.cells :
                      r.cells[c] = IF RasterOffset(r) + c < RasterGfxOf(r).elements
                                   THEN RasterOffset(r) + c ELSE TRANSPARENT
                /\ \A i \in 0 .. (RasterOffset(r) - 1) :
                      \A c \in DOMAIN r.cells : r.cells[c] # i

\* a raster of the 33-element set exported while the live view is scrolled:
\* 32 by 2 cells, and element 0 is in none of them
C22_Witness ==
    /\ GfxExported
    /\ \E k \in 1 .. Len(last.fx.rasters) :
          LET r == last.fx.rasters[k]
          IN  /\ RasterOffset(r) > 0
              /\ r.ycells = 2
              /\ \A c \in DOMAIN r.cells : r.cells[c] # 0
              /\ r.cells[0] = RasterOffset(r)

\* a raster exported from an unscrolled view holds every element in place
C22_WitnessUnscrolled ==
    /\ GfxExported
    /\ \E k \in 1 .. Len(last.fx.rasters) :
          LET r == last.fx.rasters[k]
          IN  /\ RasterOffset(r) = 0
              /\ r.ycells = 2
              /\ r.cells[32] = 32 /\ r.cells[33] = TRANSPARENT


----------------------------------------------------------------------------
(* The viewer state across an export batch *)

\* the machine as the call just made saw it
HostThen ==
    [host EXCEPT !.fail = input.fail, !.mouse = input.mouse,
                 !.cellboxwidth = input.width]

\* the viewer state when the batch of the call just made started (the case
\* of the switch is found, state.save is still set) and when it ended
BatchStart ==
    ui_gfx_seek(
        ui_gfx_running_dirty(
            ui_gfx_is_relevant_state(WithFx(last.before), HostThen),
            last.paused0),
        HostThen)

BatchEnd == ui_gfx_export(BatchStart, HostThen, last.fx.batch)

\* C23: an export batch never touches the shared raster cache: state.bitmap,
\* state.texture and state.bitmap_dirty are the same when the batch ends as
\* when it started.
C23_CacheUntouched ==
    Exported =>
        /\ BatchStart.save /\ BatchEnd.fx.out = last.fx.out
        /\ BatchEnd.bitmap = BatchStart.bitmap
        /\ BatchEnd.texture = BatchStart.texture
        /\ BatchEnd.bitmap_dirty = BatchStart.bitmap_dirty

\* a gfxset batch that built rasters of another size than the cache holds
C23_Witness ==
    /\ GfxExported
    /\ BatchStart.bitmap.valid /\ BatchStart.texture # NULL
    /\ \E k \in 1 .. Len(last.fx.rasters) :
          <<last.fx.rasters[k].width, last.fx.rasters[k].height>>
              # <<BatchStart.bitmap.width, BatchStart.bitmap.height>>

\* a batch run while the cache is valid and clean
C23_WitnessClean ==
    /\ Exported
    /\ BatchStart.bitmap.valid /\ ~BatchStart.bitmap_dirty
    /\ Len(last.fx.out) > 1


\* the live navigation state: what selects the view that is shown
Navigation(s) ==
    [ palette_devindex |-> s.palette.devindex,
      palette_which    |-> s.palette.which,
      palette_offset   |-> s.palette.offset,
      gfx_devindex     |-> s.gfxset.devindex,
      gfx_set          |-> s.gfxset.set,
      gfx_color        |-> [d \in DevRange |-> s.gfxdev[d].color],
      gfx_offset       |-> [d \in DevRange |-> s.gfxdev[d].offset],
      tilemap_which    |-> s.tilemap.which,
      tilemap_xoffs    |-> s.tilemap.xoffs,
      tilemap_yoffs    |-> s.tilemap.yoffs ]

\* C24 as stated: an export batch does not perturb on-screen state: the
\* live navigation state (palette device index and subset, selected gfx
\* device and set, every set's selected colour, scroll offsets, tilemap
\* selection) is the same after the batch as before it.
C24_NavigationKept ==
    Exported => Navigation(BatchEnd) = Navigation(BatchStart)

\* C24, what the code does in a tilemap batch: nothing of the viewer state
\* changes but state.save.
C24_TilemapBatchKeeps ==
    (Exported /\ last.fx.batch = "tilemap") =>
        WithoutFx(BatchEnd) = [WithoutFx(BatchStart) EXCEPT !.save = FALSE]

\* C24, what the code does in a palette batch: it leaves the last device
\* selected, and the subset of the last pass.
C24_PaletteBatchMoves ==
    (Exported /\ last.fx.batch = "palette") =>
        /\ BatchEnd.palette.devindex = BatchStart.palette.devcount - 1
        /\ BatchEnd.palette.which =
               IF indirect_entries(host, BatchEnd.palette.interface) > 0
               THEN 1 ELSE 0
        /\ Navigation(BatchEnd) =
               [Navigation(BatchStart) EXCEPT
                   !.palette_devindex = BatchEnd.palette.devindex,
                   !.palette_which = BatchEnd.palette.which]

\* C24, what the code does in a gfxset batch: it leaves the last set of the
\* device selected, every set of the device on its last exported colour,
\* and the palette view on the pens of the first palette device.
C24_GfxsetBatchMoves ==
    GfxExported =>
        LET dev  == BatchStart.gfxset.devindex
            info == BatchStart.gfxdev[dev]
        IN  /\ BatchEnd.gfxset.devindex = dev
            /\ \A set \in 0 .. (info.setcount - 1) :
                  LET colors == gfx_of(host, info.interface, set).colors
                  IN  colors > 0 =>
                        BatchEnd.gfxdev[dev].color[set] = Min(colors, 32) - 1
            /\ last.fx.rasters # <<>> =>
                  /\ BatchEnd.gfxset.set = last.fx.rasters[Len(last.fx.rasters)].set
                  /\ BatchEnd.palette.which = 0
                  /\ BatchEnd.palette.devindex = 0
            /\ Navigation(BatchEnd).gfx_offset = Navigation(BatchStart).gfx_offset

\* a gfxset batch started on the first set with its first colour selected
\* that ends on another set and another colour
C24_Witness ==
    /\ GfxExported
    /\ BatchStart.gfxset.set = 0
    /\ BatchStart.gfxdev[BatchStart.gfxset.devindex].color[0] = 0
    /\ BatchEnd.gfxset.set # 0
    /\ BatchEnd.gfxdev[BatchStart.gfxset.devindex].color[0] # 0

\* a palette batch started on the first device that ends on the second
C24_WitnessPalette ==
    /\ Exported /\ last.fx.batch = "palette"
    /\ BatchStart.palette.devindex = 0
    /\ BatchEnd.palette.devindex = 1

C24_WitnessTilemap ==
    /\ Exported /\ last.fx.batch = "tilemap"
    /\ Len(last.fx.out) > 1


----------------------------------------------------------------------------
(* The save request *)

\* the next call of the handler when no key is pressed
NextCall == ui_gfx_ui_handler(WithFx(ui_gfx), host, {}, last.uistate, paused)

\* C25: the save request is one-shot.  A batch runs only in a call that
\* starts with state.save set, and every call that starts with it set and
\* shows a view runs one; the batch runs once, in that call, and state.save
\* is false when it ends; state.save is set at the end of a call exactly
\* when Snapshot was pressed in that call, so that the next call runs the
\* batch and, with no key pressed, leaves state.save false.
C25_OneShot ==
    Done =>
        /\ last.fx.batch # "none" =>
              /\ last.before.save
              /\ BatchStart.save /\ ~BatchEnd.save
              /\ last.fx.batch = last.fx.view /\ last.fx.views = 1
        /\ last.fx.view # "none" => (last.fx.batch # "none" <=> last.before.save)
        /\ last.fx.view = "none" => ui_gfx.save = last.before.save
        /\ ui_gfx.save <=> (pressed(last.keys, "SNAPSHOT") /\ last.fx.view # "none")
        /\ ui_gfx.save =>
              /\ NextCall.state.fx.batch = NextCall.state.fx.view
              /\ NextCall.state.fx.batch # "none"
              /\ ~NextCall.state.save
        /\ ~ui_gfx.save => NextCall.state.fx.batch = "none"

\* a call that ran the batch requested by the Snapshot of an earlier frame
\* and, with no Snapshot pressed in it, leaves no request behind
C25_Witness ==
    /\ Exported
    /\ last.before.save
    /\ ~pressed(last.keys, "SNAPSHOT")
    /\ ~ui_gfx.save
    /\ NextCall.state.fx.batch = "none"

\* Snapshot pressed while a batch runs: one more request, for the next call
C25_WitnessAgain ==
    /\ Exported
    /\ pressed(last.keys, "SNAPSHOT")
    /\ ui_gfx.save


----------------------------------------------------------------------------
(* The selected colour and the columns of a gfx set *)

GfxsetRan == Done /\ last.fx.view = "gfxset"

\* the enumerated sets: (device, set) pairs
EnumeratedSets ==
    { <<dev, set>> \in DevRange \X SlotRange :
        dev < ui_gfx.gfxset.devcount /\ set < ui_gfx.gfxdev[dev].setcount }

ColorInRange(dev, set, color) ==
    ui_gfx.gfxdev[dev].color_count[set] >= 1
    => (0 <= color /\ color <= ui_gfx.gfxdev[dev].color_count[set] - 1)

\* what the call just made rasterized in the live view: the set shown when
\* it started, with the colour the batch (if any) left selected
Rasterized ==
    gfxset_content(IF last.fx.batch = "gfxset" THEN BatchEnd ELSE BatchStart, 0, 0)

\* C26: for every gfx set with at least one colour, the selected colour is
\* within [0, color_count - 1] whenever the set is rasterized (in the live
\* view and in an export batch), and in every state between the calls,
\* after any sequence of Left/Right presses, set and device switches and
\* export batches.
C26_ColorInRange ==
    /\ \A ds \in EnumeratedSets :
          ColorInRange(ds[1], ds[2], ui_gfx.gfxdev[ds[1]].color[ds[2]])
    /\ GfxsetRan => ColorInRange(Rasterized[2], Rasterized[3], Rasterized[5])
    /\ GfxExported =>
          \A k \in 1 .. Len(last.fx.rasters) :
              ColorInRange(last.fx.rasters[k].dev, last.fx.rasters[k].set,
                           last.fx.rasters[k].color)

\* Right pressed on the last colour of a set of three: it stays selected
C26_Witness ==
    /\ GfxsetRan
    /\ pressed(last.keys, "RIGHT") /\ ~pressed(last.keys, "LEFT")
    /\ last.keys \cap {"NEXT_GROUP", "PREV_GROUP"} = {}
    /\ gfx_get(last.before, "color_count") = 3
    /\ gfx_get(last.before, "color") = 2
    /\ gfx_get(ui_gfx, "color") = 2

\* Left pressed on the first colour
C26_WitnessLow ==
    /\ GfxsetRan
    /\ last.keys = {"LEFT"}
    /\ gfx_get(last.before, "color") = 0
    /\ gfx_get(ui_gfx, "color") = 0

\* the live view rasterized right after a batch, on the colour it left
C26_WitnessBatch ==
    /\ GfxExported
    /\ last.fx.refill > 0
    /\ Rasterized[5] # gfx_get(last.before, "color")


ColumnsOf(ds) == ui_gfx.gfxdev[ds[1]].columns[ds[2]]

\* C27 as stated: for every gfx set of every device, the stored columns
\* value is within [2, 128] at the end of every frame, after any sequence
\* of zoom keys, set and device switches and layout passes.
C27_ColumnsInRange ==
    Done => \A ds \in EnumeratedSets : 2 <= ColumnsOf(ds) /\ ColumnsOf(ds) <= 128

\* C27, what the code does: at the end of a frame the set that is visible
\* then has its columns within [2, 128]; a set left in that frame keeps what
\* the layout pass stored for it, which is at least 1.
C27_VisibleColumnsInRange ==
    /\ GfxsetRan =>
          /\ 2 <= gfx_get(ui_gfx, "columns")
          /\ gfx_get(ui_gfx, "columns") <= 128
    /\ \A ds \in EnumeratedSets : 1 <= ColumnsOf(ds) /\ ColumnsOf(ds) <= 128

\* the set shown on entry had its columns shrunk to 1 by the layout pass and
\* was left with the next-group key: it ends the frame with 1 column
C27_Witness ==
    /\ GfxsetRan
    /\ pressed(last.keys, "NEXT_GROUP")
    /\ last.before.gfxset.set = 0 /\ ui_gfx.gfxset.set = 1
    /\ ColumnsOf(<<0, 0>>) = 1

\* zoom in at 128 columns stays at 128
C27_WitnessHigh ==
    /\ GfxsetRan
    /\ last.keys = {"ZOOM_IN"}
    /\ gfx_get(last.before, "columns") = 128
    /\ gfx_get(ui_gfx, "columns") = 128

\* a layout pass that shrank the visible set to 1 column, ending at 2
C27_WitnessLow ==
    /\ GfxsetRan
    /\ last.keys = {}
    /\ host.cellboxwidth = 3
    /\ gfx_get(ui_gfx, "columns") = 2

----------------------------------------------------------------------------
(* POINTER HOVER *)

\* the call just made, had find_mouse found no pointer
Unhovered ==
    ui_gfx_ui_handler(WithFx(last.before), [HostThen EXCEPT !.mouse = NoMouse],
                      last.keys, last.uistate, last.paused0)

\* everything the call did but the title
Unhovering(fx) == [fx EXCEPT !.hover = <<>>]

Hovered == Done /\ last.fx.hover # <<>>

\* C28: pointer hover never mutates view state.  In all three modes a call
\* made with the pointer over or off the grid or the map, whatever keys are
\* pressed and so with none, leaves the viewer state (mode, indices,
\* offsets, columns, zoom, rotation, category filter, save request, dirty
\* flag, raster), the pause state and the return value exactly as the same
\* call leaves them when there is no pointer, and redraws, reallocates and
\* exports exactly what that call does; the title alone differs.
C28_HoverWritesNothing ==
    (Done /\ last.called) =>
        /\ ui_gfx = WithoutFx(Unhovered.state)
        /\ paused = Unhovered.paused
        /\ last.ret = Unhovered.ret
        /\ Unhovering(last.fx) = Unhovering(Unhovered.state.fx)
        /\ Unhovered.state.fx.hover = <<>>

\* the palette title names the entry under the pointer, no key pressed
C28_Witness ==
    /\ Hovered /\ last.keys = {}
    /\ last.fx.hover[1].view = "palette"
    /\ last.fx.hover[1].index > 0

\* the gfxset title names an element and a pixel of it, no key pressed
C28_WitnessGfxset ==
    /\ Hovered /\ last.keys = {}
    /\ last.fx.hover[1].view = "gfxset"
    /\ last.fx.hover[1].code > 0

\* the tilemap title names a tile, no key pressed
C28_WitnessTilemap ==
    /\ Hovered /\ last.keys = {}
    /\ last.fx.hover[1].view = "tilemap"
    /\ last.fx.hover[1].x > 0

\* the pointer is on the target, beside the box: the title names nothing
C28_WitnessOff ==
    /\ Done /\ last.called /\ last.keys = {}
    /\ input.mouse.target /\ input.mouse.x < 0
    /\ last.fx.view # "none"
    /\ last.fx.hover = <<>>

----------------------------------------------------------------------------
(* PAN AGAINST HOVER *)

\* the arrow key of a call that has one
ArrowOf(keys) == CHOOSE k \in keys \cap {"UP", "DOWN", "LEFT", "RIGHT"} : TRUE

\* the way an arrow key points on the screen, x to the right and y down
ScreenWay(key) ==
    CASE key = "UP"    -> [x |-> 0, y |-> 0 - 1]
      [] key = "DOWN"  -> [x |-> 0, y |-> 1]
      [] key = "LEFT"  -> [x |-> 0 - 1, y |-> 0]
      [] key = "RIGHT" -> [x |-> 1, y |-> 0]

\* how far, in x and in y of the tilemap, the pixel hover reads moves when
\* the pointer moves one pixel the way the key points
HoverWay(rotate, key) ==
    LET lay == tilemap_view_layout(WithFx(ui_gfx), host)
        p0 == tilemap_hover_pixel(rotate, lay.mapboxwidth, lay.mapboxheight,
                                  0, 0)
        p1 == tilemap_hover_pixel(rotate, lay.mapboxwidth, lay.mapboxheight,
                                  ScreenWay(key).x, ScreenWay(key).y)
    IN  [x |-> p1.xpixel - p0.xpixel, y |-> p1.ypixel - p0.ypixel]

\* the flip bit hover applies to the screen axis of the key
FlipOf(key) ==
    IF key \in {"UP", "DOWN"} THEN ORIENTATION_FLIP_Y ELSE ORIENTATION_FLIP_X

\* the tilemap axis hover derives from the screen axis of the key
AxisOf(rotate, key) ==
    IF (key \in {"UP", "DOWN"}) = ~HasBit(rotate, ORIENTATION_SWAP_XY)
    THEN "yoffs" ELSE "xoffs"

\* C29: tilemap pan axis remapping mirrors the hover inverse transform for
\* all 8 rotation codes.  A key pass with one arrow key and step s, under
\* the rotation code the pass pans with, moves the offsets by s times the
\* move of the pixel that hover reads when the pointer moves one pixel the
\* way the key points: Up/Down change the offset of the axis hover derives
\* from the screen-vertical coordinate (yoffs without swap, xoffs with
\* swap), Left/Right the other one, and the step is negated exactly when the
\* flip bit hover applies to that screen axis is set (FLIP_Y for Up/Down,
\* FLIP_X for Left/Right).
C29_PanMirrorsHover ==
    (TilemapRan /\ OneArrow(last.keys) /\ "HOME" \notin last.keys) =>
        LET key == ArrowOf(last.keys)
            rotate == ui_gfx.tilemap.rotate
            way == HoverWay(rotate, key)
            step == PanStep(last.keys)
            sign == (ScreenWay(key).x + ScreenWay(key).y)
                        * (IF HasBit(rotate, FlipOf(key)) THEN 0 - 1 ELSE 1)
        IN  /\ ui_gfx.tilemap.xoffs
                 = (last.before.tilemap.xoffs + step * way.x) % MapNow.width
            /\ ui_gfx.tilemap.yoffs
                 = (last.before.tilemap.yoffs + step * way.y) % MapNow.height
            /\ way = [x |-> IF AxisOf(rotate, key) = "xoffs" THEN sign ELSE 0,
                      y |-> IF AxisOf(rotate, key) = "yoffs" THEN sign ELSE 0]

\* Down under swap and FLIP_Y, with the pointer over the map: xoffs went
\* back by the step
C29_Witness ==
    /\ TilemapRan /\ last.keys = {"DOWN", "LSHIFT"}
    /\ last.fx.hover # <<>>
    /\ HasBit(ui_gfx.tilemap.rotate, ORIENTATION_SWAP_XY)
    /\ HasBit(ui_gfx.tilemap.rotate, ORIENTATION_FLIP_Y)
    /\ MapNow.width = 3
    /\ ui_gfx.tilemap.xoffs = (last.before.tilemap.xoffs + 2) % 3
    /\ ui_gfx.tilemap.yoffs = last.before.tilemap.yoffs

\* Left under swap without FLIP_X: yoffs went back by the step
C29_WitnessLeft ==
    /\ TilemapRan /\ last.keys = {"LEFT", "LSHIFT"}
    /\ HasBit(ui_gfx.tilemap.rotate, ORIENTATION_SWAP_XY)
    /\ ~HasBit(ui_gfx.tilemap.rotate, ORIENTATION_FLIP_X)
    /\ MapNow.height = 2
    /\ ui_gfx.tilemap.yoffs = (last.before.tilemap.yoffs + 1) % 2
    /\ ui_gfx.tilemap.xoffs = last.before.tilemap.xoffs

----------------------------------------------------------------------------
(* PALETTE EXPORT: SUBSETS *)

PalExported == Exported /\ last.fx.batch = "palette"

PalDevices == 0 .. (Len(host.pals) - 1)

\* the file of the Direct subset of a device (its pens), and of its Indirect
\* subset (its colours), as palette_handle_save names them
DirectName(d) ==
    <<"palette", d, IF indirect_entries(host, d) > 0 THEN "pens " ELSE "",
      entries(host, d)>>

IndirectName(d) ==
    <<"palette", d, IF indirect_entries(host, d) > 0 THEN "colors " ELSE "",
      indirect_entries(host, d)>>

\* where in the batch the file was attempted: 0 if nowhere
AttemptAt(name) ==
    LET at == Attempts(last.fx.out)
    IN  IF \E i \in 1 .. Len(at) : at[i] = name
        THEN CHOOSE i \in 1 .. Len(at) : at[i] = name
        ELSE 0

\* C30 as stated: a palette export batch writes, for every palette device,
\* one Direct-subset instance, and writes an Indirect-subset instance for a
\* device if and only if that device itself has indirect entries; the
\* Direct instances of all devices come before any Indirect instance.
C30_IndirectIffOwn ==
    PalExported =>
        /\ \A d \in PalDevices :
              /\ AttemptAt(DirectName(d)) # 0
              /\ (AttemptAt(IndirectName(d)) # 0) <=> (indirect_entries(host, d) > 0)
        /\ \A d, e \in PalDevices :
              AttemptAt(IndirectName(e)) # 0 =>
                  AttemptAt(DirectName(d)) < AttemptAt(IndirectName(e))

\* C30, what the batch does: one Direct instance for every device, in the
\* order of the devices; then, if and only if the last device has indirect
\* entries, an Indirect instance for every device, in the same order, also
\* for a device that has none (a file of 0 entries); nothing else.
C30_IndirectIffLast ==
    PalExported =>
        LET n == Len(host.pals)
            at == Attempts(last.fx.out)
            second == indirect_entries(host, n - 1) > 0
        IN  /\ Len(at) = IF second THEN 2 * n ELSE n
            /\ \A d \in PalDevices :
                  /\ at[d + 1] = DirectName(d)
                  /\ second => at[n + d + 1] = IndirectName(d)

\* the last device has indirect entries and the first has none: the first
\* gets an Indirect instance all the same
C30_Witness ==
    /\ PalExported
    /\ indirect_entries(host, 0) = 0
    /\ AttemptAt(IndirectName(0)) = 3
    /\ AttemptAt(DirectName(1)) = 2

\* the first device has indirect entries and the last has none: no Indirect
\* instance is written for the first
C30_WitnessMissing ==
    /\ PalExported
    /\ indirect_entries(host, 0) > 0
    /\ indirect_entries(host, 1) = 0
    /\ AttemptAt(DirectName(0)) = 1
    /\ AttemptAt(IndirectName(0)) = 0

\* both devices have indirect entries: two Direct instances, then two
\* Indirect ones
C30_WitnessBoth ==
    /\ PalExported
    /\ indirect_entries(host, 0) > 0
    /\ AttemptAt(DirectName(1)) = 2
    /\ AttemptAt(IndirectName(0)) = 3
    /\ AttemptAt(IndirectName(1)) = 4

----------------------------------------------------------------------------
(* GFX LAYOUT, in the frame loop *)

\* the layout gfxset_handler computed in the call just made: from the state
\* the batch (if any) left and the window of that frame
LayoutIn == BatchEnd

LayoutC == gfx_get(LayoutIn, "columns")

LayoutW == HostThen.cellboxwidth

LayoutCellX ==
    gfxset_cellxpix(gfx_get(LayoutIn, "rotate"), gfxset_current(LayoutIn, HostThen))

LayoutCellY ==
    gfxset_cellypix(gfx_get(LayoutIn, "rotate"), gfxset_current(LayoutIn, HostThen))

LayoutOut == gfxset_view_layout(LayoutIn, HostThen)

\* floor(floor(W/c)/cellPix)
ScaleAt(c) == CDiv(CDiv(LayoutW, c), LayoutCellX)

\* the layout is the one the raster of the frame was asked for, ycells is
\* floor(availableHeight / (pixelScale * cellPixY)) with no cap, and the
\* shrunk count is stored back (the key pass then holds it within 2..128)
LayoutUsed ==
    /\ last.fx.want = <<LayoutCellX * LayoutOut.xcells,
                        LayoutCellY * LayoutOut.ycells>>
    /\ LayoutOut.ycells
          = CDiv(HostThen.cellboxheight, LayoutOut.pixelscale * LayoutCellY)
    /\ last.keys = {} =>
          /\ ui_gfx.gfxset = LayoutIn.gfxset
          /\ gfx_get(ui_gfx, "columns") = Max(2, LayoutOut.xcells)

\* C31 as stated: the layout shrink loop yields the largest column count c
\* with 1 <= c <= C such that c = 1 or floor(floor(W/c)/cellPix) >= 1;
\* pixelScale is max(1, floor(floor(W/c)/cellPix)) for that c; the shrunk c
\* is stored back as the set's columns; and ycells is
\* floor(availableHeight / (pixelScale * cellPixY)) with no upper cap.
C31_LargestThatFits ==
    GfxsetRan =>
        /\ LayoutOut.xcells \in 1 .. LayoutC
        /\ LayoutOut.xcells = 1 \/ ScaleAt(LayoutOut.xcells) >= 1
        /\ \A c \in (LayoutOut.xcells + 1) .. LayoutC : ScaleAt(c) = 0
        /\ LayoutOut.pixelscale = Max(1, ScaleAt(LayoutOut.xcells))
        /\ LayoutUsed

\* C31, what the loop does: the column count is as stated; the pixel scale
\* is as stated when the loop is entered (C >= 2), and 1 when it is not
\* (C = 1), whatever room the window leaves
C31_LoopEntered ==
    GfxsetRan =>
        /\ LayoutOut.xcells \in 1 .. LayoutC
        /\ LayoutOut.xcells = 1 \/ ScaleAt(LayoutOut.xcells) >= 1
        /\ \A c \in (LayoutOut.xcells + 1) .. LayoutC : ScaleAt(c) = 0
        /\ LayoutOut.pixelscale
              = IF LayoutC >= 2 THEN Max(1, ScaleAt(LayoutOut.xcells)) ELSE 1
        /\ LayoutUsed

\* a set whose stored columns are 1 is laid out in a window with room for
\* three times its cell: one column at pixel scale 1
C31_Witness ==
    /\ GfxsetRan
    /\ LayoutC = 1
    /\ ScaleAt(1) = 3
    /\ LayoutOut.xcells = 1
    /\ LayoutOut.pixelscale = 1

\* the loop gave up columns and stopped at a scale above 1
C31_WitnessShrunk ==
    /\ GfxsetRan
    /\ LayoutC = 16
    /\ LayoutOut.xcells < 16
    /\ LayoutOut.xcells > 1
    /\ LayoutOut.pixelscale = ScaleAt(LayoutOut.xcells)

----------------------------------------------------------------------------
(* GFX BRACKET KEYS *)

\* the (device, set) pair after and before a pair, in lexicographic order,
\* staying at the ends
PairAfter(p) ==
    IF p[2] + 1 < ui_gfx.gfxdev[p[1]].setcount THEN <<p[1], p[2] + 1>>
    ELSE IF p[1] + 1 < ui_gfx.gfxset.devcount THEN <<p[1] + 1, 0>>
    ELSE p

PairBefore(p) ==
    IF p[2] > 0 THEN <<p[1], p[2] - 1>>
    ELSE IF p[1] > 0 THEN <<p[1] - 1, ui_gfx.gfxdev[p[1] - 1].setcount - 1>>
    ELSE p

PairOf(s) == <<s.gfxset.devindex, s.gfxset.set>>

\* C32: gfx bracket keys walk the (device, set) pairs in lexicographic
\* order without wrapping: NextGroup from (d,s) goes to (d,s+1) if s+1 <
\* setCount[d], else to (d+1,0) if d+1 < deviceCount, else stays; PrevGroup
\* goes to (d,s-1) if s > 0, else to (d-1, setCount[d-1]-1) if d > 0, else
\* stays (both pressed: PrevGroup, then NextGroup); each bracket press
\* marks the raster dirty; and in every reachable state in which gfx
\* devices are enumerated, also after an export batch, deviceIndex <
\* deviceCount and set < setCount[deviceIndex].
C32_BracketsWalk ==
    /\ ui_gfx.gfxset.devcount > 0 =>
          /\ ui_gfx.gfxset.devindex \in 0 .. (ui_gfx.gfxset.devcount - 1)
          /\ ui_gfx.gfxset.set
                \in 0 .. (ui_gfx.gfxdev[ui_gfx.gfxset.devindex].setcount - 1)
    /\ GfxsetRan =>
          LET from == PairOf(BatchEnd)
              back == IF "PREV_GROUP" \in last.keys
                      THEN PairBefore(from) ELSE from
              on   == IF "NEXT_GROUP" \in last.keys
                      THEN PairAfter(back) ELSE back
          IN  /\ PairOf(ui_gfx) = on
              /\ (last.keys \cap {"PREV_GROUP", "NEXT_GROUP"} # {})
                    => ui_gfx.bitmap_dirty

\* NextGroup at the last set of the first device: on to the second device
C32_Witness ==
    /\ GfxsetRan /\ last.keys = {"NEXT_GROUP"}
    /\ PairOf(BatchEnd) = <<0, 1>>
    /\ PairOf(ui_gfx) = <<1, 0>>
    /\ ui_gfx.bitmap_dirty

\* NextGroup at the last set of the last device: stays, and marks dirty
C32_WitnessEnd ==
    /\ GfxsetRan /\ last.keys = {"NEXT_GROUP"}
    /\ PairOf(BatchEnd) = <<1, 0>>
    /\ PairOf(ui_gfx) = <<1, 0>>
    /\ ui_gfx.bitmap_dirty

\* PrevGroup at the first set of the second device: back to the last set
\* of the first
C32_WitnessBack ==
    /\ GfxsetRan /\ last.keys = {"PREV_GROUP"}
    /\ PairOf(BatchEnd) = <<1, 0>>
    /\ PairOf(ui_gfx) = <<0, 1>>

\* a batch ran from the first set and left the last set of the device
\* selected
C32_WitnessBatch ==
    /\ GfxsetRan /\ last.fx.batch = "gfxset"
    /\ PairOf(last.before) = <<0, 0>>
    /\ PairOf(ui_gfx) = <<0, 1>>

----------------------------------------------------------------------------
(* PALETTE SELECTION *)

\* the palette devices are enumerated
PalettesCounted == ui_gfx.started /\ ui_gfx.palette.devcount > 0

\* deviceIndex is within [0, deviceCount-1] and the cached palette interface
\* is the device at deviceIndex
DeviceValid ==
    /\ ui_gfx.palette.devindex \in 0 .. (ui_gfx.palette.devcount - 1)
    /\ ui_gfx.palette.interface = byindex(host, ui_gfx.palette.devindex)
    /\ ui_gfx.palette.interface # NULL
    /\ ui_gfx.palette.which \in {0, 1}

\* subset is Indirect only if the selected device has indirect entries
SubsetValid ==
    ui_gfx.palette.which = 1
        => indirect_entries(host, ui_gfx.palette.interface) > 0

\* every gfx set of the machine has at least one colour
EverySetColoured ==
    \A d \in DOMAIN host.gfx :
        \A set \in DOMAIN host.gfx[d] : host.gfx[d][set].colors >= 1

\* C33 as stated: the palette selection is always valid.  In every reachable
\* state in which the palette devices are enumerated, after any sequence of
\* bracket keys and export batches (of palettes and of gfx sets),
\* deviceIndex is within [0, deviceCount-1], the cached palette interface is
\* the device at deviceIndex, and subset is Indirect only if the selected
\* device has indirect entries.
C33_SelectionValid ==
    PalettesCounted => (DeviceValid /\ SubsetValid)

\* C33, what holds: the device index and the cached interface are valid in
\* every reachable state, and the subset is valid on a machine whose gfx
\* sets all have at least one colour
C33_ValidWithColours ==
    PalettesCounted =>
        /\ DeviceValid
        /\ EverySetColoured => SubsetValid

\* a gfx batch ran over a set of no colour drawn with the colours of the
\* second device: the colour loop did not run, and the batch leaves the
\* subset Indirect on the first device, which has no indirect entries
C33_Witness ==
    /\ Exported /\ last.fx.batch = "gfxset"
    /\ last.fx.rasters = <<>>
    /\ last.before.palette.which = 0
    /\ ui_gfx.palette.devindex = 0
    /\ ui_gfx.palette.which = 1
    /\ indirect_entries(host, ui_gfx.palette.interface) = 0

\* the same after a set of one colour: its colour loop selects the pens of
\* the first device, and the set of no colour that follows sets Indirect
C33_WitnessAfterColour ==
    /\ Exported /\ last.fx.batch = "gfxset"
    /\ Len(last.fx.rasters) = 1
    /\ last.before.palette.devindex = 1
    /\ ui_gfx.palette.devindex = 0
    /\ ui_gfx.palette.which = 1
    /\ indirect_entries(host, ui_gfx.palette.interface) = 0

\* the palette view then shown has no entry: total is the indirect count of
\* a device without indirect entries
C33_WitnessEmptyView ==
    /\ PaletteRan
    /\ last.before.palette.which = 1
    /\ indirect_entries(host, last.before.palette.interface) = 0
    /\ palette_total(last.before.palette, HostThen) = 0

\* a gfx batch ran with the colours of the second device shown: it leaves
\* the pens of the first device selected
C33_WitnessReset ==
    /\ Exported /\ last.fx.batch = "gfxset"
    /\ last.before.palette.devindex = 1
    /\ last.before.palette.which = 1
    /\ ui_gfx.palette.devindex = 0
    /\ ui_gfx.palette.which = 0
    /\ ui_gfx.palette.interface = 0

\* a palette batch ran from the first device: it leaves the colours of the
\* last device selected
C33_WitnessPalette ==
    /\ Exported /\ last.fx.batch = "palette"
    /\ last.before.palette.devindex = 0
    /\ last.keys = {}
    /\ ui_gfx.palette.devindex = 1
    /\ ui_gfx.palette.which = 1
    /\ indirect_entries(host, ui_gfx.palette.interface) > 0

\* PrevGroup crossed from the second device into the colours of the first
C33_WitnessBracket ==
    /\ PaletteRan /\ last.keys = {"PREV_GROUP"}
    /\ last.before.palette.devindex = 1
    /\ ui_gfx.palette.devindex = 0
    /\ ui_gfx.palette.which = 1

----------------------------------------------------------------------------
(* HOME AND END *)

NavigationKeys == {"UP", "DOWN", "PAGE_UP", "PAGE_DOWN", "HOME", "END"}

EndAlone == last.keys \cap NavigationKeys = {"END"}

\* max(0, ceil(total/cols)*cols - screen)
LastPage(total, cols, screen) ==
    Max(0, CDiv(total + cols - 1, cols) * cols - screen)

\* the elements of the set the key pass ended on
ElementsNow == gfxset_current(ui_gfx, host).elements

\* C34 as stated: End is a set-then-clamp step that lands on the last
\* page: after a key pass in which End is the only navigation key,
\* scrollOffset = max(0, ceil(total/cols)*cols - screen), with screen =
\* columns^2 in the palette view and xcells*ycells in the gfx view; the
\* intermediate value total is never observable at the end of a key pass;
\* Home always leaves scrollOffset = 0.
C34_EndLandsOnLastPage ==
    /\ PaletteRan =>
          /\ EndAlone =>
                ui_gfx.palette.offset
                    = LastPage(PaletteTotal, ui_gfx.palette.columns,
                               ui_gfx.palette.columns * ui_gfx.palette.columns)
          /\ "HOME" \in last.keys => ui_gfx.palette.offset = 0
    /\ GfxsetRan =>
          /\ EndAlone =>
                gfx_get(ui_gfx, "offset")
                    = LastPage(ElementsNow, LayoutOut.xcells,
                               LayoutOut.xcells * LayoutOut.ycells)
          /\ "HOME" \in last.keys => gfx_get(ui_gfx, "offset") = 0

\* C34, what the key passes do: End alone lands on the last page in the
\* palette view, and in the gfx view when the grid has at least one row;
\* on a gfx grid of no rows it leaves the element count itself; Home leaves
\* 0 unless End is pressed with it, and then End decides.
C34_EndThenClamp ==
    /\ PaletteRan =>
          /\ (EndAlone \/ {"HOME", "END"} \subseteq last.keys) =>
                ui_gfx.palette.offset
                    = LastPage(PaletteTotal, ui_gfx.palette.columns,
                               ui_gfx.palette.columns * ui_gfx.palette.columns)
          /\ ("HOME" \in last.keys /\ "END" \notin last.keys) =>
                ui_gfx.palette.offset = 0
    /\ GfxsetRan =>
          /\ (EndAlone \/ {"HOME", "END"} \subseteq last.keys) =>
                gfx_get(ui_gfx, "offset")
                    = IF LayoutOut.ycells >= 1
                      THEN LastPage(ElementsNow, LayoutOut.xcells,
                                    LayoutOut.xcells * LayoutOut.ycells)
                      ELSE ElementsNow
          /\ ("HOME" \in last.keys /\ "END" \notin last.keys) =>
                gfx_get(ui_gfx, "offset") = 0

\* End alone on a gfx grid of no rows: the offset is the element count, 11,
\* and the last page starts at 12
C34_Witness ==
    /\ GfxsetRan /\ last.keys = {"END"}
    /\ LayoutOut.ycells = 0
    /\ LayoutOut.xcells = 4
    /\ gfx_get(ui_gfx, "offset") = 11

\* End alone on a gfx grid of two rows of four: the last page starts at 4
C34_WitnessGfxset ==
    /\ GfxsetRan /\ last.keys = {"END"}
    /\ LayoutOut.ycells = 2
    /\ gfx_get(ui_gfx, "offset") = 4

\* End alone in the palette view: 20 entries in 4 columns, the last page
\* starts at 4
C34_WitnessPalette ==
    /\ PaletteRan /\ last.keys = {"END"}
    /\ last.before.palette.offset = 0
    /\ ui_gfx.palette.columns = 4
    /\ ui_gfx.palette.offset = 4

\* Home pressed with End in the gfx view: End decides
C34_WitnessHomeEnd ==
    /\ GfxsetRan /\ last.keys = {"HOME", "END"}
    /\ gfx_get(ui_gfx, "offset") = 4

----------------------------------------------------------------------------
(* STALE RASTER *)

\* what a refill from the navigation state shown by the call just made
\* would draw
FreshContent ==
    IF last.fx.view = "gfxset"
    THEN gfxset_content(BatchEnd, LayoutOut.xcells, LayoutOut.ycells)
    ELSE tilemap_content(BatchEnd, HostThen)

\* the call displayed the cached raster without refilling it
ShownCached == RasterRan /\ last.fx.refill = 0

\* C35 as stated: the cached raster is never shown stale.  In the gfx and
\* tilemap views, whenever a frame displays the cached raster without
\* refilling it, the raster content equals what a refill from the current
\* navigation state (device, set, scroll offset, selected colour, rotation;
\* or tilemap index, pan offsets, category filter) would produce; every
\* operation that changes that state, including an export batch run while
\* the host is paused, leaves dirty set.
C35_NeverStale ==
    ShownCached => ui_gfx.bitmap.content = FreshContent

\* what the two rasters are drawn from, whatever the grid
NavigationOf(s) == <<gfxset_content(s, 0, 0), tilemap_content(s, HostThen)>>

\* C35, what holds: the view handlers and the key pass leave dirty set
\* whenever they change what the raster is drawn from, and the tilemap batch
\* changes nothing of it
C35_KeysLeaveDirty ==
    /\ (RasterRan /\ NavigationOf(ui_gfx) # NavigationOf(BatchEnd))
            => ui_gfx.bitmap_dirty
    /\ (RasterRan /\ last.fx.batch = "tilemap")
            => NavigationOf(BatchEnd) = NavigationOf(last.before)

\* a paused frame in which a key changed the selected colour and left dirty
\* set
C35_WitnessKey ==
    /\ RasterRan
    /\ last.paused0
    /\ last.fx.view = "gfxset"
    /\ "RIGHT" \in last.keys
    /\ NavigationOf(ui_gfx) # NavigationOf(BatchEnd)
    /\ ui_gfx.bitmap_dirty

\* a paused frame in which the tilemap batch ran and the cached raster was
\* shown
C35_WitnessTilemap ==
    /\ ShownCached
    /\ last.paused0
    /\ last.fx.batch = "tilemap"
    /\ ui_gfx.bitmap.content = FreshContent

\* the host is paused and a gfx batch ran: it left the last colour of the
\* set selected, and the frame shows the raster drawn with the colour
\* before
C35_Witness ==
    /\ ShownCached
    /\ last.paused0
    /\ last.fx.batch = "gfxset"
    /\ BatchEnd.gfxset.set = 1
    /\ ui_gfx.bitmap.content # FreshContent
    /\ ui_gfx.bitmap.content
          = gfxset_content(last.before, LayoutOut.xcells, LayoutOut.ycells)

\* the host is paused and no key is pressed: the raster of the frame before
\* is shown again, and it is what a refill would draw
C35_WitnessCached ==
    /\ ShownCached
    /\ last.paused0
    /\ last.fx.batch = "none"
    /\ ui_gfx.bitmap.valid
    /\ ui_gfx.bitmap.content = FreshContent

----------------------------------------------------------------------------
(* WHICH BATCH A SNAPSHOT RUNS *)

\* Snapshot was pressed in the call just made, while a view was displayed
SnapshotPressed ==
    Done /\ last.fx.view # "none" /\ "SNAPSHOT" \in last.keys

\* the batch the next call of the handler runs (the switch runs the batch
\* before it reads any key of that call)
NextBatch == NextCall.state.fx.batch

\* C36 as stated: the export batch that runs is the one of the mode in which
\* Snapshot was pressed.  If Snapshot is pressed while mode M is displayed,
\* then the next export batch executed is M's batch, for every combination
\* of other keys pressed in the same frame (in particular Select, or Cancel
\* followed by re-entering the overlay).
C36_BatchOfPressedMode ==
    SnapshotPressed => NextBatch = last.fx.view

\* C36, what holds: the next call runs a batch, that of the view it shows;
\* it is the batch of the mode Snapshot was pressed in when Select was not
\* pressed with it, with or without Cancel
C36_BatchOfNextMode ==
    SnapshotPressed =>
        /\ NextBatch = NextCall.state.fx.view
        /\ NextBatch # "none"
        /\ "SELECT" \notin last.keys => NextBatch = last.fx.view

\* Snapshot and Select pressed in one frame of the palette view: the next
\* call runs the gfx batch
C36_Witness ==
    /\ SnapshotPressed
    /\ last.keys = {"SNAPSHOT", "SELECT"}
    /\ last.fx.view = "palette"
    /\ NextBatch = "gfxset"

\* Snapshot and Cancel pressed in one frame of the gfx view: the call after
\* re-entering runs the gfx batch
C36_WitnessCancel ==
    /\ SnapshotPressed
    /\ last.keys = {"SNAPSHOT", "CANCEL"}
    /\ last.ret = UI_HANDLER_CANCEL
    /\ last.fx.view = "gfxset"
    /\ NextBatch = "gfxset"

\* Snapshot pressed alone in the tilemap view
C36_WitnessAlone ==
    /\ SnapshotPressed
    /\ last.keys = {"SNAPSHOT"}
    /\ last.fx.view = "tilemap"
    /\ NextBatch = "tilemap"

----------------------------------------------------------------------------
(* THE INDICES READ *)

\* the elements and palette entries whose data the call just made read, by
\* the place that read them
PaletteViewReads ==
    IF last.fx.view = "palette"
    THEN palette_reads(last.fx.pal0, palette_total(last.fx.pal0, HostThen))
    ELSE {}

PaletteHoverReads ==
    { hv.index : hv \in { last.fx.hover[i] : i \in
                            { i \in DOMAIN last.fx.hover :
                                last.fx.hover[i].view = "palette" } } }

GfxRefreshReads ==
    IF last.fx.view = "gfxset" /\ last.fx.refill > 0
    THEN gfxset_reads(gfx_get(BatchEnd, "offset"), LayoutOut.xcells,
                      LayoutOut.ycells, gfxset_current(BatchEnd, HostThen).elements)
    ELSE {}

GfxHoverReads ==
    { hv.code : hv \in { last.fx.hover[i] : i \in
                           { i \in DOMAIN last.fx.hover :
                               last.fx.hover[i].view = "gfxset" } } }

\* the elements read for raster r of the gfx batch
ExportReads(r) ==
    { r.cells[c] : c \in { c \in DOMAIN r.cells : r.cells[c] # TRANSPARENT } }

ExportElements(r) ==
    gfx_of(HostThen, last.before.gfxdev[r.dev].interface, r.set).elements

\* every scroll offset of the viewer state is zero or more
OffsetsNatural ==
    /\ ui_gfx.palette.offset >= 0
    /\ \A dev \in DOMAIN ui_gfx.gfxdev :
          \A set \in DOMAIN ui_gfx.gfxdev[dev].offset :
              ui_gfx.gfxdev[dev].offset[set] >= 0

\* C37: element and palette-entry data are only ever read for an index
\* inside the resource.  The gfx live refresh, the gfx hover and the gfx
\* export read element data only for an index in [0, elements), and the
\* palette view and the palette hover read colours only for an index in
\* [0, total); the scroll offset of the palette and of every gfx set is zero
\* or more in every reachable state.
C37_ReadsInside ==
    /\ OffsetsNatural
    /\ Done =>
        /\ \A index \in PaletteViewReads \cup PaletteHoverReads :
              0 <= index /\ index < palette_total(last.fx.pal0, HostThen)
        /\ \A index \in GfxRefreshReads \cup GfxHoverReads :
              0 <= index /\ index < gfxset_current(BatchEnd, HostThen).elements
        /\ \A i \in DOMAIN last.fx.rasters :
              \A index \in ExportReads(last.fx.rasters[i]) :
                  0 <= index /\ index < ExportElements(last.fx.rasters[i])

\* the gfx view scrolled to its last screen: the refresh reads the last
\* element and nothing for the cell after it, and the pointer over that cell
\* reads nothing
C37_Witness ==
    /\ Done
    /\ last.fx.view = "gfxset"
    /\ gfx_get(BatchEnd, "offset") = 4
    /\ GfxRefreshReads = {4}
    /\ HostThen.mouse = Mouse(2, 0)
    /\ GfxHoverReads = {}

\* the pointer over the first cell of the same screen reads the last element
C37_WitnessHover ==
    /\ Done
    /\ last.fx.view = "gfxset"
    /\ gfx_get(BatchEnd, "offset") = 4
    /\ GfxHoverReads = {4}

\* the palette view of 4 columns scrolled to its last screen reads the
\* entries 4 to 19, and the hover one of them
C37_WitnessPalette ==
    /\ Done
    /\ last.fx.view = "palette"
    /\ last.fx.pal0.columns = 4
    /\ last.fx.pal0.offset = 4
    /\ PaletteViewReads = 4 .. 19
    /\ PaletteHoverReads # {}

\* the palette view of 16 columns reads the 20 entries and skips the cells
\* after them
C37_WitnessPaletteShort ==
    /\ Done
    /\ last.fx.view = "palette"
    /\ last.fx.pal0.columns = 16
    /\ PaletteViewReads = 0 .. 19

\* the gfx batch run on the scrolled set reads the last element alone
C37_WitnessExport ==
    /\ Done
    /\ last.fx.batch = "gfxset"
    /\ Len(last.fx.rasters) = 1
    /\ ExportReads(last.fx.rasters[1]) = {4}

----------------------------------------------------------------------------
(* THE TWO RASTERIZERS *)

CellsDrawn == probe.op = "cells"

\* C38: the live and the export per-cell rasterizers are equivalent.  For the
\* same element, colour, rotation code and palette, gfxset_draw_item and
\* gfxset_draw_save_item write the same pixel value (0xFF000000 | palette
\* entry) at the same cell-local position for every pixel of the cell, for
\* all 8 rotation codes.
C38_SameCell ==
    CellsDrawn =>
        /\ DOMAIN probe.live = DOMAIN probe.save
        /\ \A c \in DOMAIN probe.live :
              /\ probe.live[c] = probe.save[c]
              /\ probe.live[c].a = 255
              /\ \E i \in DOMAIN probe.raw :
                    probe.live[c].rgb = probe.raw[i] % 16777216

\* a quarter turn with a flip of a 2x3 element in the second colour: six
\* pixels, each of its own colour, the same in both bitmaps
C38_Witness ==
    /\ CellsDrawn
    /\ probe.rotate = 7
    /\ probe.gfx.width = 2 /\ probe.gfx.height = 3
    /\ probe.color = 1
    /\ DOMAIN probe.live = (0 .. 2) \X (0 .. 1)
    /\ Cardinality({probe.live[c] : c \in DOMAIN probe.live}) = 6
    /\ probe.save = probe.live

----------------------------------------------------------------------------
(* HOVER AND RASTERIZER *)

\* the gfx view was shown with the pointer inside the cell box and the cells
\* a whole number of target pixels wide and high: the cell under the
\* pointer, the pixel of the cell, and the element of the cell
PointedRotate == gfx_get(LayoutIn, "rotate")
PointedCellX == HostThen.mouse.x \div (LayoutCellX * LayoutOut.pixelscale)
PointedCellY == HostThen.mouse.y \div (LayoutCellY * LayoutOut.pixelscale)
PointedX ==
    (HostThen.mouse.x % (LayoutCellX * LayoutOut.pixelscale))
        \div LayoutOut.pixelscale
PointedY ==
    (HostThen.mouse.y % (LayoutCellY * LayoutOut.pixelscale))
        \div LayoutOut.pixelscale
PointedCode ==
    gfx_get(LayoutIn, "offset") + PointedCellY * LayoutOut.xcells + PointedCellX

Pointed ==
    /\ Done
    /\ last.fx.view = "gfxset"
    /\ gfxset_cellboxwidth(LayoutIn, HostThen, LayoutOut)
          = LayoutOut.xcells * LayoutOut.pixelscale * LayoutCellX
    /\ gfxset_cellboxheight(LayoutIn, HostThen, LayoutOut)
          = LayoutOut.ycells * LayoutOut.pixelscale * LayoutCellY
    /\ hover_inside(HostThen.mouse,
                    gfxset_cellboxwidth(LayoutIn, HostThen, LayoutOut),
                    gfxset_cellboxheight(LayoutIn, HostThen, LayoutOut))

\* the pointer is over a pixel of an element, not over the gap column or
\* row of its cell nor over a cell past the last element
PointedElement ==
    /\ PointedCode < gfxset_current(LayoutIn, HostThen).elements
    /\ PointedX < gfxset_item_width(PointedRotate, gfxset_current(LayoutIn, HostThen))
    /\ PointedY < gfxset_item_height(PointedRotate, gfxset_current(LayoutIn, HostThen))

\* C39: the gfx hover agrees with the rasterizer.  For each of the 8
\* rotation codes and every cell-local pixel inside the element area of a
\* cell, the source coordinate that the hover resolves equals the source
\* coordinate gfxset_draw_item reads for that cell-local pixel; the hover
\* reports nothing for a gap pixel or for a cell whose index is >= elements.
C39_HoverReadsDrawnPixel ==
    Pointed =>
        IF PointedElement
        THEN LET eff == gfxset_effective(PointedRotate,
                                         gfxset_current(LayoutIn, HostThen),
                                         PointedX, PointedY)
             IN  last.fx.hover = <<[ view   |-> "gfxset",
                                     code   |-> PointedCode,
                                     color  |-> gfx_get(LayoutIn, "color"),
                                     xpixel |-> eff.effx,
                                     ypixel |-> eff.effy ]>>
        ELSE last.fx.hover = <<>>

\* a quarter turn with a flip: the pointer over the pixel (0, 1) of the
\* displayed cell resolves to another pixel of the element, the one the
\* rasterizer reads
C39_Witness ==
    /\ Pointed /\ PointedElement
    /\ PointedRotate \in {4, 7}
    /\ PointedX = 0 /\ PointedY = 1
    /\ Len(last.fx.hover) = 1
    /\ <<last.fx.hover[1].xpixel, last.fx.hover[1].ypixel>> # <<1, 0>>
    /\ <<last.fx.hover[1].xpixel, last.fx.hover[1].ypixel>> # <<0, 1>>

\* the pointer over the gap column of a cell
C39_WitnessGap ==
    /\ Pointed /\ ~PointedElement
    /\ PointedCode = 0
    /\ PointedX = LayoutCellX - 1
    /\ last.fx.hover = <<>>

\* the pointer over a cell past the last element
C39_WitnessPast ==
    /\ Pointed /\ ~PointedElement
    /\ PointedCode >= 3
    /\ PointedX = 0 /\ PointedY = 0
    /\ last.fx.hover = <<>>

----------------------------------------------------------------------------
(* RESTART *)

\* ui_gfx_init has just run on the state a machine left: no call of the
\* viewer has counted the devices since
Restarted == probe.op = "init" /\ ~ui_gfx.started

\* the fields ui_gfx_init assigns are at their defaults
RestartAssigned(s) ==
    /\ s.mode = UI_GFX_PALETTE
    /\ ~s.bitmap.valid /\ s.texture = NULL /\ ~s.bitmap_dirty
    /\ s.palette.devindex = 0 /\ s.palette.which = 0 /\ s.palette.columns = 16
    /\ \A dev \in DOMAIN s.gfxdev :
          \A set \in DOMAIN s.gfxdev[dev].columns :
              /\ s.gfxdev[dev].columns[set] = 16
              /\ s.gfxdev[dev].offset[set] = 0
              /\ s.gfxdev[dev].color[set] = 0
    /\ s.gfxset.devindex = 0 /\ s.gfxset.set = 0
    /\ s.tilemap.which = 0 /\ s.tilemap.xoffs = 0 /\ s.tilemap.yoffs = 0
    /\ s.tilemap.zoom = 0
    /\ s.tilemap.flags = TILEMAP_DRAW_ALL_CATEGORIES
    /\ ~s.started

\* C40 as stated: ui_gfx_init resets the whole viewer state to its defaults
\* whatever the state was before, so nothing persists across a restart: mode
\* Palette, saveRequested false, raster released and not dirty, palette
\* deviceIndex 0 / subset Direct / columns 16 / scrollOffset 0, every gfx set
\* at columns 16 / offset 0 / color 0, tilemap index 0 / offsets 0 / zoom
\* auto / all categories, and the device enumeration marked as not yet done.
C40_ResetsEverything ==
    Restarted =>
        /\ RestartAssigned(ui_gfx)
        /\ ~ui_gfx.save
        /\ ui_gfx.palette.offset = 0

\* C40, what holds: every field but two is reset, whatever the state was
\* before; state.save and state.palette.offset are not assigned and keep the
\* value the machine before left
C40_ResetsAssigned ==
    [][Restart =>
        /\ RestartAssigned(ui_gfx')
        /\ ui_gfx'.save = ui_gfx.save
        /\ ui_gfx'.palette.offset = ui_gfx.palette.offset]_vars

\* Snapshot was pressed in the last frame of the machine before, with the
\* palette scrolled: the request is still set after ui_gfx_init, and the
\* palette still scrolled
C40_Witness ==
    /\ Restarted
    /\ RestartAssigned(ui_gfx)
    /\ ui_gfx.save
    /\ ui_gfx.palette.offset = 4

\* a restart that finds neither of the two set: the state is the one of the
\* first start
C40_WitnessReset ==
    /\ Restarted
    /\ ui_gfx = ui_gfx_init(ui_gfx_static, host)

\* the batch the request left by the machine before runs in the first frame
\* of the new machine
C40_WitnessBatch ==
    /\ Done
    /\ ~last.before.started
    /\ last.before.save
    /\ last.fx.batch = "palette"

====
